---- MODULE Spec2Model ----
(***************************************************************************)
(* Model of the chunk / invoke / normalize / validate / dedupe pipeline of *)
(* the scripts under src/scripts/work.  Texts are sequences of one-letter  *)
(* strings; the newline character is "\n".                                 *)
(***************************************************************************)
EXTENDS Integers, Sequences, FiniteSets, TLC

VARIABLES
    \* --- line chunker ---
    lines,      \* the source document: a sequence of lines (read_lines)
    size,       \* window size W passed to the chunker
    overlap,    \* overlap V passed to the chunker
    policy,     \* "none" before the call, then "strict", "permissive" or "subroutine"
    chunked,    \* the chunker's outcome: [raised |-> BOOLEAN, chunks |-> Seq(text)]
    \* --- fuzzy deduplicator ---
    results,    \* the accepted results handed to fuzzy_dedupe, in input order
    di,         \* number of results the loop of fuzzy_dedupe has consumed
    seen,       \* fuzzy_dedupe's local list `seen`
    unique,     \* fuzzy_dedupe's local list `unique` (returned at the end)
    dpc,        \* "idle" | "scan" | "done"
    \* --- response normalizer ---
    ntext,      \* the response text handed to normalize_headers
    nvariant,   \* which script's normalize_headers: "final_batch" | "with_context"
    nout,       \* the text returned by the latest call
    nprev,      \* the text returned by the call before it
    npasses,    \* number of calls made so far (0, 1 or 2); -1 when idle
    \* --- a run of the pipeline over one document ---
    variant,    \* which script runs: one of Variants
    chunks,     \* the chunks of the document
    ci,         \* 0-based index of the chunk being processed (enumerate)
    rpc,        \* "idle" | "loop" | "invoke" | "primary_done" | "categorise" | "done" | "crashed" | "aborted"
    rmodel,     \* the model run_ollama is running: "primary" | "fallback" | "none"
    rattempt,   \* run_ollama's loop variable `attempt` (attempts already timed out)
    rresult,    \* the value run_ollama returned last: None or Str(text)
    calls,      \* history: every subprocess.run made, in order
    rets,       \* history: every value run_ollama returned, in order
    all_results,        \* texts of the accepted results
    low_conf_results,   \* texts of the low-confidence results
    failed,     \* the list `failed` / `failed_chunks`
    category,   \* history: the branch each processed chunk took
    artifacts,  \* per-chunk files written, in order
    raw_log,    \* the list `raw_log`
    summary,    \* SUMMARY.md: [written, content]
    failed_txt, \* FAILED_CHUNKS.txt: [written, content]
    raw_out,    \* RAW_OLLAMA_OUTPUT.md: [written, content]
    write_errors,   \* history: the chunks (1-based) during which a file write raised OSError
    \* --- a worker-pool run (analyze_rpg_chunks_p2.py) ---
    pargs,      \* the list `args` handed to pool.map: one (index, chunk) per task
    ptask,      \* per task: [st, attempt, result]; st is "pending" | "primary" | "fallback" | "save" | "done"
    pfiles,     \* the files written by the tasks: a set of [path, by]
    pmain,      \* the main process: "idle" | "map" | "dedupe" | "summary" | "done"
    presults,   \* the list pool.map returned
    pfinal,     \* the list fuzzy_deduplicate returned
    psummary,   \* SUMMARY.md: [written, content]
    pfinished,  \* the tasks in the order their results came back from the workers
    \* --- title / identifier extractor ---
    xtext,    \* the response text handed to the extractor
    xvariant,    \* which script's extractor: one of TitleVariants; "idle" when idle
    xout,    \* what the extractor returned: [title, id, name]
    xpc,    \* "idle" | "ready" | "done"
    xprev,   \* the call before this one in the same run: [made, text, out]
    \* --- narrative formatter ---
    utext,    \* the accepted result text handed to the narrative formatter
    uvariant,    \* which script's formatter: one of NarrVariants; "idle" when idle
    unarr,    \* the narrative the formatter returned
    upc,   \* "idle" | "ready" | "done"
    \* --- process_chunks of claude-version.py ---
    cv_script,    \* whose process_chunks: "claude" | "claude_2"; "idle" when idle
    cv_chunks,    \* the chunks handed to process_chunks
    cv_i,    \* index (0-based) of the chunk the loop is at
    cv_pc,    \* "idle" | "primary" | "fallback" | "categorise" | "finalize" | "done" | "aborted"
    cv_result,    \* what run_ollama returned for the chunk at hand
    cv_all_results,    \* all_results: the accepted texts, in the order appended
    cv_failed,    \* failed: the 1-based numbers of the chunks with no response
    cv_raw_log,    \* raw_log: the texts logged, in order
    use_case_counter,    \* use_case_counter
    cv_category,    \* per chunk number, the branch the loop body took: "none" until then
    cv_files,    \* the per-result files written: records [name, kind, chunk]
    cv_summary,    \* unique_results as written to SUMMARY.md
    cv_reported,   \* the triple process_chunks prints and returns; <<>> until then
    \* --- prompt builder ---
    bscript,    \* whose build_prompt: "final_batch" | "claude_2"; "idle" when idle
    bclock,    \* the date datetime.now() gives: <<year, month, day>>
    bdays,    \* how many times the date has changed
    bcalls    \* the calls of build_prompt made: records [args, prompt]

chunkVars == <<lines, size, overlap, policy, chunked>>

dedupeVars == <<results, di, seen, unique, dpc>>

normVars == <<ntext, nvariant, nout, nprev, npasses>>

runVars == <<variant, chunks, ci, rpc, rmodel, rattempt, rresult, calls, rets, all_results,
             low_conf_results, failed, category, artifacts, raw_log, summary, failed_txt,
             raw_out, write_errors>>

vars == <<lines, size, overlap, policy, chunked, results, di, seen, unique, dpc,
          ntext, nvariant, nout, nprev, npasses,
          variant, chunks, ci, rpc, rmodel, rattempt, rresult, calls, rets, all_results,
          low_conf_results, failed, category, artifacts, raw_log, summary, failed_txt,
          raw_out, write_errors,
          pargs, ptask, pfiles, pmain, presults, pfinal, psummary, pfinished,
          xtext, xvariant, xout, xpc, xprev,
          utext, uvariant, unarr, upc,
          cv_script, cv_chunks, cv_i, cv_pc, cv_result, cv_all_results, cv_failed, cv_raw_log, use_case_counter, cv_category, cv_files, cv_summary, cv_reported,
          bscript, bclock, bdays, bcalls>>

poolVars == <<pargs, ptask, pfiles, pmain, presults, pfinal, psummary, pfinished>>

titleVars == <<xtext, xvariant, xout, xpc, xprev>>

narrVars == <<utext, uvariant, unarr, upc>>

cvVars == <<cv_script, cv_chunks, cv_i, cv_pc, cv_result, cv_all_results, cv_failed, cv_raw_log, use_case_counter, cv_category, cv_files, cv_summary, cv_reported>>

promptVars == <<bscript, bclock, bdays, bcalls>>

notChunk == <<dedupeVars, normVars, runVars, poolVars, titleVars, narrVars, cvVars, promptVars>>

notDedupe == <<chunkVars, normVars, runVars, poolVars, titleVars, narrVars, cvVars, promptVars>>

notNorm == <<chunkVars, dedupeVars, runVars, poolVars, titleVars, narrVars, cvVars, promptVars>>

notRun == <<chunkVars, dedupeVars, normVars, poolVars, titleVars, narrVars, cvVars, promptVars>>

notPool == <<chunkVars, dedupeVars, normVars, runVars, titleVars, narrVars, cvVars, promptVars>>

notTitle == <<chunkVars, dedupeVars, normVars, runVars, poolVars, narrVars, cvVars, promptVars>>

notNarr == <<chunkVars, dedupeVars, normVars, runVars, poolVars, titleVars, cvVars, promptVars>>

notCv == <<chunkVars, dedupeVars, normVars, runVars, poolVars, titleVars, narrVars, promptVars>>

notPrompt == <<chunkVars, dedupeVars, normVars, runVars, poolVars, titleVars, narrVars, cvVars>>

\* Python's None and a str value
None == [tag |-> "None"]

Str(t) == [tag |-> "str", s |-> t]

\* No earlier call of the title extractor in the run
NoCall == [made |-> FALSE, text |-> <<>>, out |-> [title |-> <<>>, id |-> <<>>, name |-> <<>>]]

\* The values a component's variables hold while another component is exercised
ChunkIdle ==
    /\ lines = <<>>
    /\ size = 0
    /\ overlap = 0
    /\ policy = "idle"
    /\ chunked = [raised |-> FALSE, chunks |-> <<>>]

DedupeIdle ==
    /\ results = <<>>
    /\ di = 0
    /\ seen = <<>>
    /\ unique = <<>>
    /\ dpc = "idle"

NormIdle ==
    /\ ntext = <<>>
    /\ nvariant = "idle"
    /\ nout = <<>>
    /\ nprev = <<>>
    /\ npasses = -1

RunIdle ==
    /\ variant = "idle"
    /\ chunks = <<>>
    /\ ci = 0
    /\ rpc = "idle"
    /\ rmodel = "none"
    /\ rattempt = 0
    /\ rresult = None
    /\ calls = <<>>
    /\ rets = <<>>
    /\ all_results = <<>>
    /\ low_conf_results = <<>>
    /\ failed = <<>>
    /\ category = <<>>
    /\ artifacts = <<>>
    /\ raw_log = <<>>
    /\ summary = [written |-> FALSE, content |-> <<>>]
    /\ failed_txt = [written |-> FALSE, content |-> <<>>]
    /\ raw_out = [written |-> FALSE, content |-> <<>>]
    /\ write_errors = <<>>

PoolIdle ==
    /\ pargs = <<>>
    /\ ptask = <<>>
    /\ pfiles = {}
    /\ pmain = "idle"
    /\ presults = <<>>
    /\ pfinal = <<>>
    /\ psummary = [written |-> FALSE, content |-> <<>>]
    /\ pfinished = <<>>

TitleIdle ==
    /\ xtext = <<>>
    /\ xvariant = "idle"
    /\ xout = [title |-> <<>>, id |-> <<>>, name |-> <<>>]
    /\ xpc = "idle"
    /\ xprev = NoCall

NarrIdle ==
    /\ utext = <<>>
    /\ uvariant = "idle"
    /\ unarr = <<>>
    /\ upc = "idle"

CvIdle ==
    /\ cv_script = "idle"
    /\ cv_chunks = <<>>
    /\ cv_i = 0
    /\ cv_pc = "idle"
    /\ cv_result = None
    /\ cv_all_results = <<>>
    /\ cv_failed = <<>>
    /\ cv_raw_log = <<>>
    /\ use_case_counter = 1
    /\ cv_category = <<>>
    /\ cv_files = {}
    /\ cv_summary = <<>>
    /\ cv_reported = <<>>

PromptIdle ==
    /\ bscript = "idle"
    /\ bclock = <<0, 0, 0>>
    /\ bdays = 0
    /\ bcalls = <<>>

----------------------------------------------------------------------------
\* Bounds of the model
MaxLines == 7
MaxBlankLines == 3
MaxSize == 4
MaxOverlap == 4
MaxResults == 3
MaxTextLines == 2
MaxChunks == 2
MaxTasks == 3
MaxWorkers == 2
MaxCalls == 2
MaxDays == 1
MaxSubrLines == 4

----------------------------------------------------------------------------
\* Text helpers (Python str / list primitives)

NL == "\n"

Min(a, b) == IF a < b THEN a ELSE b

Max(a, b) == IF a > b THEN a ELSE b

Digits == <<"0", "1", "2", "3", "4", "5", "6", "7", "8", "9">>

\* str(n) for n >= 0
RECURSIVE DecStr(_)
DecStr(n) == IF n < 10 THEN <<Digits[n + 1]>>
             ELSE DecStr(n \div 10) \o <<Digits[(n % 10) + 1]>>

\* xs[lo:hi] for 0 <= lo, 0 <= hi (Python slice, clipped at len(xs))
Slice(xs, lo, hi) == SubSeq(xs, lo + 1, Min(hi, Len(xs)))

\* '\n'.join(ls)  (halving keeps the recursion shallow)
RECURSIVE Join(_)
Join(ls) == IF Len(ls) = 0 THEN <<>>
            ELSE IF Len(ls) = 1 THEN ls[1]
            ELSE LET h == Len(ls) \div 2
                 IN Join(SubSeq(ls, 1, h)) \o <<NL>> \o Join(SubSeq(ls, h + 1, Len(ls)))

\* text.split('\n'): the pieces between consecutive newlines
Split(t) ==
    LET P == {k \in 1..Len(t) : t[k] = NL}
        pos(j) == IF j = 0 THEN 0
                  ELSE IF j = Cardinality(P) + 1 THEN Len(t) + 1
                  ELSE CHOOSE p \in P : Cardinality({q \in P : q < p}) = j - 1
    IN [j \in 1..(Cardinality(P) + 1) |-> SubSeq(t, pos(j - 1) + 1, pos(j) - 1)]

\* list(range(0, stop, step)) for step # 0
PyRange(stop, step) ==
    IF step > 0 THEN [k \in 1..((stop + step - 1) \div step) |-> (k - 1) * step]
    ELSE <<>>

\* All sequences over S of length at most n
RECURSIVE SeqsUpTo(_, _)
SeqsUpTo(S, n) == IF n = 0 THEN {<<>>}
                  ELSE LET shorter == SeqsUpTo(S, n - 1)
                       IN shorter \cup {Append(s, x) : s \in {t \in shorter : Len(t) = n - 1}, x \in S}

----------------------------------------------------------------------------
\* Line Chunker

CHUNK_SIZE == 90
CHUNK_OVERLAP == 30

\* The window of `size` lines starting at 0-based line i, joined into one text
Window(ls, i, sz) == Join(Slice(ls, i, i + sz))

\* Mutant of sliding_chunks: the filter lets a window that overruns by one line through
sliding_chunks_off_by_one(ls, sz, ov) ==
    LET step == sz - ov IN
    IF step = 0 THEN [raised |-> TRUE, chunks |-> <<>>]
    ELSE LET starts == SelectSeq(PyRange(Len(ls), step), LAMBDA i : i + sz <= Len(ls) + 1)
         IN [raised |-> FALSE, chunks |-> [k \in 1..Len(starts) |-> Window(ls, starts[k], sz)]]

\* Mutant of sliding_chunks: the stride is the window size (overlap ignored)
sliding_chunks_no_overlap(ls, sz, ov) ==
    LET step == sz IN
    IF sz - ov = 0 THEN [raised |-> TRUE, chunks |-> <<>>]
    ELSE LET starts == SelectSeq(PyRange(Len(ls), step), LAMBDA i : i + sz <= Len(ls))
         IN [raised |-> FALSE, chunks |-> [k \in 1..Len(starts) |-> Window(ls, starts[k], sz)]]

\* sliding_chunks / the filtered chunk_lines (strict policy); range() raises
\* ValueError when the step is zero and is empty when the step is negative
sliding_chunks(ls, sz, ov) ==
    LET step == sz - ov IN
    IF step = 0 THEN [raised |-> TRUE, chunks |-> <<>>]
    ELSE LET starts == SelectSeq(PyRange(Len(ls), step), LAMBDA i : i + sz <= Len(ls))
         IN [raised |-> FALSE, chunks |-> [k \in 1..Len(starts) |-> Window(ls, starts[k], sz)]]

\* chunk_lines without the length filter (permissive policy)
chunk_lines(ls, sz, ov) ==
    LET step == sz - ov IN
    IF step = 0 THEN [raised |-> TRUE, chunks |-> <<>>]
    ELSE LET starts == PyRange(Len(ls), step)
         IN [raised |-> FALSE, chunks |-> [k \in 1..Len(starts) |-> Window(ls, starts[k], sz)]]

\* A document whose line k (0-based) is the decimal numeral of k: all lines distinct
Numbered(n) == [k \in 1..n |-> DecStr(k - 1)]

ChunkInputs ==
    ({Numbered(n) : n \in 0..MaxLines} \cup SeqsUpTo({<<>>, <<"a">>}, MaxBlankLines))
        \X (1..MaxSize) \X (0..MaxOverlap)
    \cup {<<Numbered(300), CHUNK_SIZE, CHUNK_OVERLAP>>}

ChunkInit ==
    /\ PromptIdle
    /\ CvIdle
    /\ NarrIdle
    /\ TitleIdle
    /\ PoolIdle
    /\ \E in \in ChunkInputs : /\ lines = in[1]
                               /\ size = in[2]
                               /\ overlap = in[3]
    /\ policy = "none"
    /\ chunked = [raised |-> FALSE, chunks |-> <<>>]
    /\ DedupeIdle
    /\ NormIdle
    /\ RunIdle

RunStrict ==
    /\ policy = "none"
    /\ policy' = "strict"
    /\ chunked' = sliding_chunks(lines, size, overlap)
    /\ UNCHANGED <<lines, size, overlap>>
    /\ UNCHANGED notChunk

RunPermissive ==
    /\ policy = "none"
    /\ policy' = "permissive"
    /\ chunked' = chunk_lines(lines, size, overlap)
    /\ UNCHANGED <<lines, size, overlap>>
    /\ UNCHANGED notChunk

ChunkNext == RunStrict \/ RunPermissive

SpecChunk == ChunkInit /\ [][ChunkNext]_vars

----------------------------------------------------------------------------
\* C1: for 0 <= V < W the strict chunker returns, in order, exactly the windows
\* [k*S, k*S+W) for k = 0..floor((L-W)/S) when L >= W and nothing when L < W;
\* every chunk has exactly W lines; 300 lines with W=90, V=30 give the four
\* windows starting at 0, 60, 120, 180.
StrictCount(L, W, S) == IF L >= W THEN ((L - W) \div S) + 1 ELSE 0

C1_StrictWindows ==
    (policy = "strict" /\ 0 <= overlap /\ overlap < size) =>
        LET L == Len(lines)
            S == size - overlap
            n == StrictCount(L, size, S)
        IN /\ ~chunked.raised
           /\ Len(chunked.chunks) = n
           /\ \A k \in 0..(n - 1) :
                /\ chunked.chunks[k + 1] = Join(SubSeq(lines, k * S + 1, k * S + size))
                /\ Len(Split(chunked.chunks[k + 1])) = size
           /\ (L = 300 /\ size = 90 /\ overlap = 30) =>
                /\ n = 4
                /\ \A k \in 0..3 :
                     Split(chunked.chunks[k + 1]) = [j \in 1..90 |-> DecStr(60 * k + j - 1)]

C1_Witness ==
    /\ policy = "strict"
    /\ Len(lines) = 300 /\ size = 90 /\ overlap = 30
    /\ Len(chunked.chunks) = 4

\* C2: for L >= 2W - V and 0 <= V < W, adjacent strict chunks i and i+1 share
\* exactly V source lines: the last V lines of chunk i are the first V lines of
\* chunk i+1 (same source indices, same order) and no other line is in both.
LinesOf(chunk) == Split(chunk)

Range(f) == {f[k] : k \in DOMAIN f}

C2_AdjacentShareOverlap ==
    (/\ policy = "strict"
     /\ 0 <= overlap /\ overlap < size
     /\ Len(lines) >= 2 * size - overlap) =>
        /\ Len(chunked.chunks) >= 2
        /\ \A i \in 1..(Len(chunked.chunks) - 1) :
             LET a == LinesOf(chunked.chunks[i])
                 b == LinesOf(chunked.chunks[i + 1])
                 S == size - overlap
             IN /\ SubSeq(a, size - overlap + 1, size) = SubSeq(b, 1, overlap)
                \* the shared lines are source lines (i-1)*S + (W-V) .. (i-1)*S + W - 1
                /\ SubSeq(b, 1, overlap) = SubSeq(lines, i * S + 1, i * S + overlap)
                \* with pairwise distinct lines the content identifies the source index
                /\ (lines = Numbered(Len(lines))) =>
                       Range(a) \cap Range(b) = Range(SubSeq(b, 1, overlap))
                       /\ Cardinality(Range(a) \cap Range(b)) = overlap

C2_Witness ==
    /\ policy = "strict"
    /\ overlap = 2 /\ size = 3
    /\ lines = Numbered(Len(lines))
    /\ Len(chunked.chunks) >= 3

----------------------------------------------------------------------------
\* difflib.SequenceMatcher(None, a, b) for texts shorter than 200 characters
\* (no junk heuristic applies below that length)

\* find_longest_match(alo, ahi, blo, bhi) on the 1-based inclusive ranges
\* a[alo..ahi], b[blo..bhi]: the longest common block; of the longest blocks the
\* one starting earliest in a, and of those the one starting earliest in b.
\* Returns <<start in a, start in b, length>>.
find_longest_match(a, b, alo, ahi, blo, bhi) ==
    LET \* k[i, j]: the length of the common run that ends at a[i], b[j]
        \* (j2len of difflib), counted back to where the run breaks
        k[i \in alo..ahi, j \in blo..bhi] ==
            IF a[i] # b[j] THEN 0
            ELSE LET lim == Min(i - alo, j - blo) + 1
                     breaks == {d \in 1..(lim - 1) : a[i - d] # b[j - d]}
                 IN IF breaks = {} THEN lim
                    ELSE CHOOSE d \in breaks : \A e \in breaks : d <= e
        bestsize == LET ks == {k[i, j] : i \in alo..ahi, j \in blo..bhi}
                    IN CHOOSE m \in ks : \A n \in ks : n <= m
        iEnd == CHOOSE i \in alo..ahi :
                    /\ \E j \in blo..bhi : k[i, j] = bestsize
                    /\ \A i2 \in alo..(i - 1) : \A j \in blo..bhi : k[i2, j] < bestsize
        jEnd == CHOOSE j \in blo..bhi :
                    /\ k[iEnd, j] = bestsize
                    /\ \A j2 \in blo..(j - 1) : k[iEnd, j2] < bestsize
    IN IF bestsize = 0 THEN <<alo, blo, 0>>
       ELSE <<iEnd - bestsize + 1, jEnd - bestsize + 1, bestsize>>

\* Sum of the sizes of get_matching_blocks(): the longest block, then the
\* blocks to its left and to its right, recursively
RECURSIVE MatchCount(_, _, _, _, _, _)
MatchCount(a, b, alo, ahi, blo, bhi) ==
    IF alo > ahi \/ blo > bhi THEN 0
    ELSE LET m == find_longest_match(a, b, alo, ahi, blo, bhi)
         IN IF m[3] = 0 THEN 0
            ELSE m[3] + MatchCount(a, b, alo, m[1] - 1, blo, m[2] - 1)
                      + MatchCount(a, b, m[1] + m[3], ahi, m[2] + m[3], bhi)

\* SequenceMatcher(None, a, b).ratio() = 2.0 * matches / (len(a) + len(b)), as
\* the exact fraction <<numerator, denominator>>; 1.0 when both are empty
ratio(a, b) ==
    IF Len(a) + Len(b) = 0 THEN <<1, 1>>
    ELSE <<2 * MatchCount(a, b, 1, Len(a), 1, Len(b)), Len(a) + Len(b)>>

----------------------------------------------------------------------------
\* Fuzzy Deduplicator

\* FUZZY_THRESHOLD = 0.94 = 94 / 100
FUZZY_THRESHOLD_NUM == 94
FUZZY_THRESHOLD_DEN == 100

\* The texts the accepted results are drawn from
TextA == <<"a", "a", "a", "b", "a", "a", "b", "b", "a", "a", "b", "b", "a", "b", "b", "a", "a">>
TextB == <<"a", "a", "a", "b", "a", "a", "b", "b", "a", "a", "a", "b", "b", "a", "b", "a", "a">>
TextX == <<"p", "a", "y", " ", "v", "e", "n", "d", "o", "r", " ", "b", "y", " ", "c", "h", "k">>
TextY == <<"p", "a", "y", " ", "v", "e", "n", "d", "o", "r", " ", "b", "y", " ", "c", "h", "q">>
TextZ == <<"p", "a", "y", " ", "v", "e", "n", "d", "e", "r", " ", "b", "y", " ", "c", "h", "q">>
TextW == <<"p", "a", "y", " ", " ", "v", "e", "n", "d", "o", "r", " ", "b", "y", " ", "c", "h", "k">>

ResultPool == {TextA, TextB, TextX, TextY, TextZ, TextW}

\* ratio() of every ordered pair of pool texts, computed once
RatioTable == [p \in ResultPool \X ResultPool |-> ratio(p[1], p[2])]

\* SequenceMatcher(None, r, s).ratio() > FUZZY_THRESHOLD
ExceedsThreshold(r, s) ==
    LET q == IF <<r, s>> \in DOMAIN RatioTable THEN RatioTable[<<r, s>>] ELSE ratio(r, s)
    IN q[1] * FUZZY_THRESHOLD_DEN > FUZZY_THRESHOLD_NUM * q[2]

\* any(SequenceMatcher(None, r, s).ratio() > FUZZY_THRESHOLD for s in seen)
AnySimilar(r, sn) == \E k \in 1..Len(sn) : ExceedsThreshold(r, sn[k])

\* Mutant of dedupe_body: `seen` records every result, kept or discarded
dedupe_body_seen_all(sn, un, r) ==
    IF ~AnySimilar(r, sn) THEN <<Append(sn, r), Append(un, r)>>
    ELSE <<Append(sn, r), un>>

\* Mutant of dedupe_body: the candidate is compared with the previous input only
dedupe_body_previous_only(sn, un, r) ==
    IF ~AnySimilar(r, sn) THEN <<(<<r>>), Append(un, r)>>
    ELSE <<(<<r>>), un>>

\* Mutant of dedupe_body: no result is kept, whatever came before it
dedupe_body_discard(sn, un, r) == <<Append(sn, r), un>>

\* The body of the loop `for r in results` of fuzzy_dedupe: <<seen, unique>> after it
dedupe_body(sn, un, r) ==
    IF ~AnySimilar(r, sn) THEN <<Append(sn, r), Append(un, r)>>
    ELSE <<sn, un>>

\* fuzzy_dedupe(results), the whole call
RECURSIVE dedupe_loop(_, _, _)
dedupe_loop(sn, un, rest) ==
    IF rest = <<>> THEN un
    ELSE LET nx == dedupe_body(sn, un, Head(rest))
         IN dedupe_loop(nx[1], nx[2], Tail(rest))

fuzzy_dedupe(rs) == dedupe_loop(<<>>, <<>>, rs)

DedupeInit ==
    /\ PromptIdle
    /\ CvIdle
    /\ NarrIdle
    /\ TitleIdle
    /\ PoolIdle
    /\ ChunkIdle
    /\ NormIdle
    /\ RunIdle
    /\ results \in SeqsUpTo(ResultPool, MaxResults)
    /\ di = 0
    /\ seen = <<>>
    /\ unique = <<>>
    /\ dpc = "scan"

\* One iteration of `for r in results`
DedupeIterate ==
    /\ dpc = "scan"
    /\ di < Len(results)
    /\ LET nx == dedupe_body(seen, unique, results[di + 1])
       IN /\ seen' = nx[1]
          /\ unique' = nx[2]
    /\ di' = di + 1
    /\ UNCHANGED <<results, dpc>>
    /\ UNCHANGED notDedupe

\* `return unique`
DedupeReturn ==
    /\ dpc = "scan"
    /\ di = Len(results)
    /\ dpc' = "done"
    /\ UNCHANGED <<results, di, seen, unique>>
    /\ UNCHANGED notDedupe

DedupeNext == DedupeIterate \/ DedupeReturn

SpecDedupe == DedupeInit /\ [][DedupeNext]_vars

\* C3: the output of fuzzy_dedupe contains no two distinct members whose
\* similarity ratio is greater than FUZZY_THRESHOLD (whichever of the two is
\* passed first to SequenceMatcher).
C3_NoSimilarPairSurvives ==
    dpc = "done" =>
        \A i, j \in 1..Len(unique) :
            i # j => ~ExceedsThreshold(unique[i], unique[j])

\* C4: fuzzy_dedupe scans in input order and discards a candidate exactly when
\* its ratio to some previously KEPT result exceeds the threshold; the output is
\* the subsequence of first appearances, and with no pair above the threshold
\* the output equals the input.
KeptFlags(xs) ==
    LET keep[j \in 1..Len(xs)] ==
            ~\E j2 \in 1..(j - 1) : keep[j2] /\ ExceedsThreshold(xs[j], xs[j2])
    IN keep

RECURSIVE KeptPrefix(_, _)
KeptPrefix(xs, n) ==
    IF n = 0 THEN <<>>
    ELSE IF KeptFlags(xs)[n] THEN Append(KeptPrefix(xs, n - 1), xs[n])
    ELSE KeptPrefix(xs, n - 1)

C4_DiscardIffSimilarToKept ==
    dpc \in {"scan", "done"} =>
        /\ unique = KeptPrefix(results, di)
        /\ (di >= 1) => unique[1] = results[1]
        /\ (dpc = "done" /\ \A i, j \in 1..Len(results) :
                                i # j => ~ExceedsThreshold(results[i], results[j]))
               => unique = results
        /\ (dpc = "done" /\ Len(results) = 2 /\ ExceedsThreshold(results[2], results[1]))
               => unique = <<results[1]>>

C4_Witness ==
    /\ dpc = "done"
    /\ results = <<TextX, TextY, TextZ>>
    /\ unique = <<TextX, TextZ>>

\* C5: deduplication is idempotent: fuzzy_dedupe(fuzzy_dedupe(xs)) = fuzzy_dedupe(xs)
C5_DedupeIdempotent ==
    dpc = "done" => fuzzy_dedupe(unique) = unique

C5_Witness ==
    /\ dpc = "done"
    /\ Len(unique) >= 2
    /\ Len(unique) < Len(results)
    /\ fuzzy_dedupe(unique) = unique

----------------------------------------------------------------------------
\* Response Normalizer

\* text.find(pat, from): the first k >= from at which pat occurs in t, else 0
OccursAt(t, pat, k) == /\ k >= 1
                       /\ k + Len(pat) - 1 <= Len(t)
                       /\ SubSeq(t, k, k + Len(pat) - 1) = pat

Find(t, pat, from) ==
    LET hits == {k \in from..(Len(t) - Len(pat) + 1) : OccursAt(t, pat, k)}
    IN IF hits = {} THEN 0 ELSE CHOOSE k \in hits : \A h \in hits : k <= h

\* pat in t
Contains(t, pat) == Find(t, pat, 1) # 0

\* t.startswith(pat)
StartsWith(t, pat) == OccursAt(t, pat, 1)

\* t.replace(old, new): every non-overlapping occurrence, left to right
RECURSIVE StrReplace(_, _, _)
StrReplace(t, old, new) ==
    LET k == Find(t, old, 1)
    IN IF k = 0 THEN t
       ELSE SubSeq(t, 1, k - 1) \o new
            \o StrReplace(SubSeq(t, k + Len(old), Len(t)), old, new)

IsDigit(c) == c \in {"0", "1", "2", "3", "4", "5", "6", "7", "8", "9"}

\* The end of the run of digits that starts at position k (k - 1 if none)
DigitsEnd(t, k) ==
    LET stops == {e \in k..(Len(t) + 1) : e > Len(t) \/ ~IsDigit(t[e])}
    IN (CHOOSE e \in stops : \A x \in stops : e <= x) - 1

\* "## Input Validation"
HDR_INPUT_VALIDATION == <<"#", "#", " ", "I", "n", "p", "u", "t", " ", "V", "a", "l", "i", "d", "a", "t", "i", "o", "n">>

\* "## Validation Rules"
HDR_VALIDATION_RULES == <<"#", "#", " ", "V", "a", "l", "i", "d", "a", "t", "i", "o", "n", " ", "R", "u", "l", "e", "s">>

\* "## Entities Used"
HDR_ENTITIES_USED == <<"#", "#", " ", "E", "n", "t", "i", "t", "i", "e", "s", " ", "U", "s", "e", "d">>

\* "## Tables Used"
HDR_TABLES_USED == <<"#", "#", " ", "T", "a", "b", "l", "e", "s", " ", "U", "s", "e", "d">>

\* "## Input Type Validation Checks"
HDR_VALIDATION_CHECKS == <<"#", "#", " ", "I", "n", "p", "u", "t", " ", "T", "y", "p", "e", " ", "V", "a", "l", "i", "d", "a", "t", "i", "o", "n", " ", "C", "h", "e", "c", "k", "s">>

\* "## Entities Used / Tables Used"
HDR_ENTITIES_TABLES == <<"#", "#", " ", "E", "n", "t", "i", "t", "i", "e", "s", " ", "U", "s", "e", "d", " ", "/", " ", "T", "a", "b", "l", "e", "s", " ", "U", "s", "e", "d">>

\* "## "
HDR_PREFIX == <<"#", "#", " ">>

\* "## Description"
HDR_DESCRIPTION == <<"#", "#", " ", "D", "e", "s", "c", "r", "i", "p", "t", "i", "o", "n">>

\* "Use Case ID"
USE_CASE_ID == <<"U", "s", "e", " ", "C", "a", "s", "e", " ", "I", "D">>

\* "Use Case ID**: UC-AP"
ID_PREFIX == <<"U", "s", "e", " ", "C", "a", "s", "e", " ", "I", "D", "*", "*", ":", " ", "U", "C", "-", "A", "P">>

\* "**Use Case ID**: UC-AP-7"
LINE_ID == <<"*", "*", "U", "s", "e", " ", "C", "a", "s", "e", " ", "I", "D", "*", "*", ":", " ", "U", "C", "-", "A", "P", "-", "7">>

\* "see ## Tables Used"
LINE_SEE_TABLES == <<"s", "e", "e", " ", "#", "#", " ", "T", "a", "b", "l", "e", "s", " ", "U", "s", "e", "d">>

\* "ok"
LINE_PLAIN == <<"o", "k">>

\* "160"
PROGRAM == <<"1", "6", "0">>

\* re.sub(r"(Use Case ID\*\*: UC-AP)-(\d+)", rf"\1-{program}-\2", t): every
\* leftmost non-overlapping match gets the program code inserted before its digits
RECURSIVE SubUseCaseId(_, _)
SubUseCaseId(t, program) ==
    LET pat == ID_PREFIX \o <<"-">>
        hits == {k \in 1..Len(t) : /\ OccursAt(t, pat, k)
                                   /\ k + Len(pat) <= Len(t)
                                   /\ IsDigit(t[k + Len(pat)])}
    IN IF hits = {} THEN t
       ELSE LET k == CHOOSE h \in hits : \A x \in hits : h <= x
                d == k + Len(pat)
                e == DigitsEnd(t, d)
            IN SubSeq(t, 1, k - 1) \o ID_PREFIX \o <<"-">> \o program \o <<"-">>
               \o SubSeq(t, d, e) \o SubUseCaseId(SubSeq(t, e + 1, Len(t)), program)

\* The dict `replacements`, in insertion order
replacements == <<
    <<HDR_INPUT_VALIDATION, HDR_VALIDATION_CHECKS>>,
    <<HDR_VALIDATION_RULES, HDR_VALIDATION_CHECKS>>,
    <<HDR_ENTITIES_USED, HDR_ENTITIES_TABLES>>,
    <<HDR_TABLES_USED, HDR_ENTITIES_TABLES>> >>

\* for wrong, correct in replacements.items(): text = text.replace(wrong, correct)
RECURSIVE ApplyReplacements(_, _)
ApplyReplacements(t, k) ==
    IF k > Len(replacements) THEN t
    ELSE ApplyReplacements(StrReplace(t, replacements[k][1], replacements[k][2]), k + 1)

\* normalize_headers(text) of analyze_ap160_with_context.py
normalize_headers_with_context(t) == ApplyReplacements(t, 1)

\* normalize_headers(text, program) of analyze_rpg_usecases_final_batch.py
normalize_headers(t, program) == SubUseCaseId(ApplyReplacements(t, 1), program)

\* The lines the response texts are made of
LinePool == {HDR_INPUT_VALIDATION, HDR_VALIDATION_RULES, HDR_ENTITIES_USED, HDR_TABLES_USED,
             HDR_VALIDATION_CHECKS, HDR_ENTITIES_TABLES, HDR_DESCRIPTION,
             LINE_ID, LINE_SEE_TABLES, LINE_PLAIN}

ResponseTexts == {Join(ls) : ls \in SeqsUpTo(LinePool, MaxTextLines) \ {<<>>}}

NormInit ==
    /\ PromptIdle
    /\ CvIdle
    /\ NarrIdle
    /\ TitleIdle
    /\ PoolIdle
    /\ ChunkIdle
    /\ DedupeIdle
    /\ RunIdle
    /\ ntext \in ResponseTexts
    /\ nvariant \in {"final_batch", "with_context", "loose"}
    /\ nout = <<>>
    /\ nprev = <<>>
    /\ npasses = 0

\* result = normalize_headers(result, program), applied to the latest text
NormalizeFinalBatch ==
    /\ nvariant = "final_batch"
    /\ npasses \in {0, 1}
    /\ nout' = normalize_headers(IF npasses = 0 THEN ntext ELSE nout, PROGRAM)
    /\ nprev' = nout
    /\ npasses' = npasses + 1
    /\ UNCHANGED <<ntext, nvariant>>
    /\ UNCHANGED notNorm

\* result = normalize_headers(result), applied to the latest text
NormalizeWithContext ==
    /\ nvariant = "with_context"
    /\ npasses \in {0, 1}
    /\ nout' = normalize_headers_with_context(IF npasses = 0 THEN ntext ELSE nout)
    /\ nprev' = nout
    /\ npasses' = npasses + 1
    /\ UNCHANGED <<ntext, nvariant>>
    /\ UNCHANGED notNorm

\* result = normalize_headers(result) of analyze_ap160_with_context_loose.py:
\* the same replacements as in analyze_ap160_with_context.py
NormalizeLoose ==
    /\ nvariant = "loose"
    /\ npasses \in {0, 1}
    /\ nout' = normalize_headers_with_context(IF npasses = 0 THEN ntext ELSE nout)
    /\ nprev' = nout
    /\ npasses' = npasses + 1
    /\ UNCHANGED <<ntext, nvariant>>
    /\ UNCHANGED notNorm

NormNext == NormalizeFinalBatch \/ NormalizeWithContext \/ NormalizeLoose

SpecNorm == NormInit /\ [][NormNext]_vars

\* C6: the header normalizer is idempotent: normalizing the normalized text
\* returns it unchanged (text with the canonical headers is a fixed point).
C6_NormalizeIdempotent ==
    npasses = 2 => nout = nprev

\* C7: the normalizer changes header lines only: the number of lines is unchanged
\* and every input line that does not start with "## " is unchanged in place.
C7_OnlyHeaderLinesChange ==
    npasses = 1 =>
        LET before == Split(ntext)
            after == Split(nout)
        IN /\ Len(after) = Len(before)
           /\ \A k \in 1..Len(before) :
                ~StartsWith(before[k], HDR_PREFIX) => after[k] = before[k]

----------------------------------------------------------------------------
\* Model Invoker

\* What one subprocess.run of `ollama run <model>` does: it exceeds TIMEOUT, or
\* it ends with some bytes on stdout
TimedOut == [tag |-> "timeout"]

Stdout(t) == [tag |-> "stdout", s |-> t]

IsSpace(c) == c \in {" ", "\n", "\t", "\r"}

\* t.strip()
Strip(t) ==
    LET keep == {k \in 1..Len(t) : ~IsSpace(t[k])}
    IN IF keep = {} THEN <<>>
       ELSE SubSeq(t, CHOOSE k \in keep : \A x \in keep : k <= x,
                      CHOOSE k \in keep : \A x \in keep : k >= x)

\* '## Identification'
HDR_IDENTIFICATION == <<"#", "#", " ", "I", "d", "e", "n", "t", "i", "f", "i", "c", "a", "t", "i", "o", "n">>

\* '## Process Steps'
HDR_PROCESS_STEPS == <<"#", "#", " ", "P", "r", "o", "c", "e", "s", "s", " ", "S", "t", "e", "p", "s">>

\* '## Flowchart'
HDR_FLOWCHART == <<"#", "#", " ", "F", "l", "o", "w", "c", "h", "a", "r", "t">>

\* '\n'
OUT_BLANK == <<"\n">>

\* '## Identification\n**Use Case ID**: UC-AP-7\n## Description\n## Process Steps\n'
OUT_VALID == <<"#", "#", " ", "I", "d", "e", "n", "t", "i", "f", "i", "c", "a", "t", "i", "o", "n", "\n", "*", "*", "U", "s", "e", " ", "C", "a", "s", "e", " ", "I", "D", "*", "*", ":", " ", "U", "C", "-", "A", "P", "-", "7", "\n", "#", "#", " ", "D", "e", "s", "c", "r", "i", "p", "t", "i", "o", "n", "\n", "#", "#", " ", "P", "r", "o", "c", "e", "s", "s", " ", "S", "t", "e", "p", "s", "\n">>

\* 'ok\n'
OUT_LOOSE == <<"o", "k", "\n">>

\* 'Chunk '
CHUNK_WORD == <<"C", "h", "u", "n", "k", " ">>

\* ' failed'
FAILED_WORD == <<" ", "f", "a", "i", "l", "e", "d">>

InvocationOutcomes == {TimedOut, Stdout(OUT_BLANK), Stdout(OUT_VALID), Stdout(OUT_LOOSE)}

\* retries=2 in analyze_ap160_with_context.py; one attempt in the other scripts
RETRIES_WITH_CONTEXT == 2
RETRIES_SINGLE == 1

Retries(v) == IF v = "with_context" THEN RETRIES_WITH_CONTEXT ELSE RETRIES_SINGLE

\* Mutant of run_ollama_attempt: the loop makes one attempt too many
run_ollama_attempt_extra(out, attempt, retries) ==
    IF out.tag = "stdout"
    THEN [returns |-> TRUE, value |-> Str(Strip(out.s)), raised |-> FALSE]
    ELSE IF attempt + 1 <= retries
         THEN [returns |-> FALSE, value |-> None, raised |-> FALSE]
         ELSE [returns |-> TRUE, value |-> None, raised |-> FALSE]

\* One attempt of run_ollama(model, prompt, retries), `attempt` attempts having
\* timed out before it: stdout is decoded, stripped and returned; TimeoutExpired
\* is caught, and then the loop goes on or, after the last attempt, None is returned
run_ollama_attempt(out, attempt, retries) ==
    IF out.tag = "stdout"
    THEN [returns |-> TRUE, value |-> Str(Strip(out.s)), raised |-> FALSE]
    ELSE IF attempt + 1 < retries
         THEN [returns |-> FALSE, value |-> None, raised |-> FALSE]
         ELSE [returns |-> TRUE, value |-> None, raised |-> FALSE]

\* bool(result)
Truthy(v) == v.tag = "str" /\ v.s # <<>>

\* Whether the caller goes on to run_ollama(FALLBACK_MODEL, prompt):
\* `a or b` / `if not result` test falsiness, `if result is None` tests None
FallbackNeeded(v, primary) ==
    IF v \in {"cases_p", "rpg_chunks"} THEN primary = None ELSE ~Truthy(primary)

----------------------------------------------------------------------------
\* Structure Validator

\* is_valid_output(text) of analyze_rpg_usecases_final_batch.py
is_valid_output(t) == Contains(t, USE_CASE_ID) /\ Contains(t, HDR_DESCRIPTION)

\* The structure test of analyze_rpg_final_filtered.py
is_valid_filtered(t) == Contains(t, USE_CASE_ID) /\ Contains(t, HDR_IDENTIFICATION)

\* is_structured_output(text) of analyze_ap160_with_context.py
STRUCTURED_MIN_SECTIONS == 3

sections == <<HDR_IDENTIFICATION, HDR_DESCRIPTION, HDR_PROCESS_STEPS, HDR_ENTITIES_USED,
              HDR_TABLES_USED, HDR_INPUT_VALIDATION, HDR_VALIDATION_CHECKS, HDR_FLOWCHART>>

is_structured_output(t) ==
    Cardinality({k \in 1..Len(sections) : Contains(t, sections[k])}) >= STRUCTURED_MIN_SECTIONS

----------------------------------------------------------------------------
\* A run of the pipeline

Variants == {"final_batch", "final_filtered", "with_context", "cases_p", "rpg_chunks", "final_2"}

\* CHUNK_SIZE of analyze_rpg_cases_p.py
CASES_P_CHUNK_SIZE == 30

\* A source listing of n lines
Listing(n) == [k \in 1..n |-> <<"C">>]

\* 'BEGSR' and 'ENDSR'
BEGSR == <<"B", "E", "G", "S", "R">>

ENDSR == <<"E", "N", "D", "S", "R">>

\* A source listing of n lines that opens and closes subroutines in turn
SubrListing(n) == [k \in 1..n |-> IF k % 2 = 1 THEN BEGSR ELSE ENDSR]

\* chunk_by_subroutine(lines) of analyze_rpg_final_2.py: the loop from line k on,
\* with the locals chunks, buffer and inside_sub
RECURSIVE chunk_by_subroutine_loop(_, _, _, _, _)
chunk_by_subroutine_loop(ls, k, chs, buffer, inside_sub) ==
    IF k > Len(ls)
    THEN IF buffer # <<>> THEN Append(chs, Join(buffer)) ELSE chs
    ELSE LET line == ls[k]
             beg == Contains(line, BEGSR)
             chs1 == IF beg /\ buffer # <<>> THEN Append(chs, Join(buffer)) ELSE chs
             buf1 == IF beg THEN <<>> ELSE buffer
             in1 == inside_sub \/ beg
             buf2 == IF in1 THEN Append(buf1, line) ELSE buf1
         IN IF Contains(line, ENDSR)
            THEN chunk_by_subroutine_loop(ls, k + 1, Append(chs1, Join(buf2)), <<>>, FALSE)
            ELSE chunk_by_subroutine_loop(ls, k + 1, chs1, buf2, in1)

chunk_by_subroutine(ls) == chunk_by_subroutine_loop(ls, 1, <<>>, <<>>, FALSE)

\* The document a run is started on
SourceOf(v, n) == IF v = "final_2" THEN SubrListing(n) ELSE Listing(n)

\* The chunker each script calls, with its module-level settings
ChunksOf(v, ls) ==
    IF v = "final_2" THEN chunk_by_subroutine(ls)
    ELSE IF v = "with_context" THEN sliding_chunks(ls, CHUNK_SIZE, CHUNK_OVERLAP).chunks
    ELSE IF v \in {"cases_p", "rpg_chunks"} THEN chunk_lines(ls, CASES_P_CHUNK_SIZE, 0).chunks
    ELSE chunk_lines(ls, CHUNK_SIZE, CHUNK_OVERLAP).chunks

\* Listing lengths that give 0 .. MaxChunks chunks under the three chunkers
ListingLengths ==
    {0} \cup {CASES_P_CHUNK_SIZE * k + 1 : k \in 0..(2 * MaxChunks)}
        \cup {CHUNK_SIZE + (CHUNK_SIZE - CHUNK_OVERLAP) * k : k \in 0..(MaxChunks - 1)}

\* Listing lengths for the subroutine chunker
SubrListingLengths == 0..(2 * MaxChunks)

SourceLengths(v) == IF v = "final_2" THEN SubrListingLengths ELSE ListingLengths

\* The text handed to the validator: normalize_headers where the script calls it
Normalized(v, t) ==
    IF v = "final_batch" THEN normalize_headers(t, PROGRAM)
    ELSE IF v \in {"cases_p", "rpg_chunks", "final_2"} THEN t
    ELSE normalize_headers_with_context(t)

\* text.lower()
UPPER == <<"A", "B", "C", "D", "E", "F", "G", "H", "I", "J", "K", "L", "M", "N", "O", "P", "Q", "R", "S", "T", "U", "V", "W", "X", "Y", "Z">>

LOWER == <<"a", "b", "c", "d", "e", "f", "g", "h", "i", "j", "k", "l", "m", "n", "o", "p", "q", "r", "s", "t", "u", "v", "w", "x", "y", "z">>

LowerChar(c) ==
    IF \E k \in 1..Len(UPPER) : UPPER[k] = c
    THEN LOWER[CHOOSE k \in 1..Len(UPPER) : UPPER[k] = c]
    ELSE c

Lower(t) == [k \in 1..Len(t) |-> LowerChar(t[k])]

\* is_low_confidence(text) of analyze_rpg_final_2.py
MIN_CONFIDENCE_LENGTH == 400

required_sections == <<<<"d", "e", "s", "c", "r", "i", "p", "t", "i", "o", "n">>,
                       <<"p", "r", "o", "c", "e", "s", "s", " ", "s", "t", "e", "p">>,
                       <<"v", "a", "l", "i", "d", "a", "t", "i", "o", "n">>,
                       <<"p", "r", "e", "-", "c", "o", "n", "d", "i", "t", "i", "o", "n">>,
                       <<"p", "o", "s", "t", "-", "c", "o", "n", "d", "i", "t", "i", "o", "n">>>>

is_low_confidence(t) ==
    LET missing == Cardinality({k \in 1..Len(required_sections) :
                                   ~Contains(Lower(t), required_sections[k])})
        short == Len(Strip(t)) < MIN_CONFIDENCE_LENGTH
    IN missing > 2 \/ short

\* The branch a chunk takes once the invoker's result is known
Categorise(v, res) ==
    IF v = "rpg_chunks" THEN (IF res = None THEN "Failed" ELSE "Accepted")
    ELSE IF ~Truthy(res) THEN "Failed"
    ELSE IF v = "final_2" THEN (IF is_low_confidence(res.s) THEN "LowConfidence" ELSE "Accepted")
    ELSE LET t == Normalized(v, res.s)
         IN IF v = "final_batch" THEN (IF is_valid_output(t) THEN "Accepted" ELSE "LowConfidence")
            ELSE IF v = "final_filtered" THEN (IF is_valid_filtered(t) THEN "Accepted" ELSE "FormatFailed")
            ELSE IF v = "with_context" THEN (IF is_structured_output(t) THEN "Accepted" ELSE "FormatFailed")
            ELSE "Accepted"

\* Mutant of FailedEntry: the 0-based loop index is recorded
FailedEntry_zero_based(i) == i

\* failed.append(i + 1)
FailedEntry(i) == i + 1

\* f"Chunk {idx} failed"
FailedLine(idx) == CHUNK_WORD \o DecStr(idx) \o FAILED_WORD

\* The cross-mark sign the messages of analyze_rpg_final_2.py start with (one
\* character, written x here), and the texts of its two failure-log lines
CROSS_MARK == <<"x", " ">>

TIMED_OUT_WORDS == <<" ", "t", "i", "m", "e", "d", " ", "o", "u", "t", " ", "o", "r", " ", "f", "a", "i", "l", "e", "d", ".">>

WRITE_FAILED_WORDS == <<" ", "f", "a", "i", "l", "e", "d", " ", "t", "o", " ", "w", "r", "i", "t", "e", ":", " ">>

OS_ERROR == <<"O", "S", "E", "r", "r", "o", "r">>

\* f"(cross) Chunk {i+1} timed out or failed."
TimedOutLine(idx) == CROSS_MARK \o CHUNK_WORD \o DecStr(idx) \o TIMED_OUT_WORDS

\* f"(cross) Chunk {i+1} failed to write: {e}"
WriteFailedLine(idx) == CROSS_MARK \o CHUNK_WORD \o DecStr(idx) \o WRITE_FAILED_WORDS \o OS_ERROR

\* The files written while one chunk is processed
ArtifactsFor(v, cat, i) ==
    IF v = "rpg_chunks"
        THEN <<[kind |-> IF cat = "Accepted" THEN "out_section" ELSE "out_failed", chunk |-> i + 1],
               [kind |-> "response_log", chunk |-> i + 1]>>
    ELSE IF v = "final_2"
        THEN (IF cat = "Failed" THEN <<>>
              ELSE <<[kind |-> "md", chunk |-> i + 1], [kind |-> "docx", chunk |-> i + 1]>>)
    ELSE IF cat = "Accepted" /\ v \in {"final_batch", "final_filtered"}
        THEN <<[kind |-> "md", chunk |-> i + 1], [kind |-> "docx", chunk |-> i + 1]>>
    ELSE IF cat = "Accepted" THEN <<[kind |-> "md", chunk |-> i + 1]>>
    ELSE IF cat = "LowConfidence" THEN <<[kind |-> "low_conf", chunk |-> i + 1]>>
    ELSE IF cat = "FormatFailed" THEN <<[kind |-> "failed_chunk", chunk |-> i + 1]>>
    ELSE <<>>

RunInit ==
    /\ PromptIdle
    /\ CvIdle
    /\ NarrIdle
    /\ TitleIdle
    /\ PoolIdle
    /\ ChunkIdle
    /\ DedupeIdle
    /\ NormIdle
    /\ \E v \in Variants :
          \E n \in SourceLengths(v) :
             /\ Len(ChunksOf(v, SourceOf(v, n))) <= MaxChunks
             /\ variant = v
             /\ chunks = ChunksOf(v, SourceOf(v, n))
    /\ ci = 0
    /\ rpc = "loop"
    /\ rmodel = "none"
    /\ rattempt = 0
    /\ rresult = None
    /\ calls = <<>>
    /\ rets = <<>>
    /\ all_results = <<>>
    /\ low_conf_results = <<>>
    /\ failed = <<>>
    /\ category = <<>>
    /\ artifacts = <<>>
    /\ raw_log = <<>>
    /\ summary = [written |-> FALSE, content |-> <<>>]
    /\ failed_txt = [written |-> variant = "final_2", content |-> <<>>]
    /\ raw_out = [written |-> variant \in {"final_filtered", "final_2"}, content |-> <<>>]
    /\ write_errors = <<>>

\* process_chunk of analyze_rpg_cases_p.py returns None at once, and the loop of
\* analyze_rpg_chunks.py continues, for a chunk with
\* a line of the template (the chunk's tasks are taken in index order here)
SkipTemplateChunk ==
    /\ rpc = "loop"
    /\ ci < Len(chunks)
    /\ variant \in {"cases_p", "rpg_chunks"}
    /\ category' = Append(category, "Skipped")
    /\ ci' = ci + 1
    /\ UNCHANGED <<variant, chunks, rpc, rmodel, rattempt, rresult, calls, rets, all_results,
                   low_conf_results, failed, artifacts, raw_log, summary, failed_txt, raw_out,
                   write_errors>>
    /\ UNCHANGED notRun

\* The loop takes the next chunk, builds its prompt and calls run_ollama(PRIMARY_MODEL, prompt)
BeginChunk ==
    /\ rpc = "loop"
    /\ ci < Len(chunks)
    /\ rpc' = "invoke"
    /\ rmodel' = "primary"
    /\ rattempt' = 0
    /\ UNCHANGED <<variant, chunks, ci, rresult, calls, rets, all_results, low_conf_results,
                   failed, category, artifacts, raw_log, summary, failed_txt, raw_out,
                   write_errors>>
    /\ UNCHANGED notRun

\* One subprocess.run inside run_ollama, and what run_ollama does with its outcome
Invoke ==
    /\ rpc = "invoke"
    /\ \E out \in InvocationOutcomes :
          LET a == run_ollama_attempt(out, rattempt, Retries(variant))
          IN /\ calls' = Append(calls, [chunk |-> ci + 1, model |-> rmodel,
                                        attempt |-> rattempt + 1, outcome |-> out])
             /\ IF a.raised
                THEN /\ rpc' = "crashed"
                     /\ UNCHANGED <<rattempt, rresult, rets>>
                ELSE IF a.returns
                THEN /\ rresult' = a.value
                     /\ rets' = Append(rets, [chunk |-> ci + 1, model |-> rmodel, value |-> a.value])
                     /\ rpc' = IF rmodel = "primary" THEN "primary_done" ELSE "categorise"
                     /\ rattempt' = 0
                ELSE /\ rattempt' = rattempt + 1
                     /\ UNCHANGED <<rresult, rets, rpc>>
    /\ UNCHANGED <<variant, chunks, ci, rmodel, all_results, low_conf_results, failed, category,
                   artifacts, raw_log, summary, failed_txt, raw_out,
                   write_errors>>
    /\ UNCHANGED notRun

\* run_ollama(PRIMARY_MODEL, prompt) has returned: the caller falls back or not
AfterPrimary ==
    /\ rpc = "primary_done"
    /\ IF FallbackNeeded(variant, rresult)
       THEN /\ rmodel' = "fallback"
            /\ rpc' = "invoke"
       ELSE /\ rpc' = "categorise"
            /\ UNCHANGED rmodel
    /\ UNCHANGED <<variant, chunks, ci, rattempt, rresult, calls, rets, all_results,
                   low_conf_results, failed, category, artifacts, raw_log, summary, failed_txt, raw_out,
                   write_errors>>
    /\ UNCHANGED notRun

\* The rest of the loop body: normalize, validate, write the chunk's files,
\* append to the lists.  Any of the chunk's file writes may raise OSError
\* (werr is the 1-based position of the write that does, 0 when none does):
\* analyze_rpg_final_2.py catches it and logs the chunk, the other scripts have
\* no handler and the exception ends the process
CategoriseChunk ==
    /\ rpc = "categorise"
    /\ LET cat == Categorise(variant, rresult)
           lists == variant \in {"final_batch", "final_filtered"}
           arts == ArtifactsFor(variant, cat, ci)
       IN \E werr \in 0..Len(arts) :
          /\ raw_log' = IF lists /\ Truthy(rresult)
                        THEN Append(raw_log, [chunk |-> ci + 1,
                                              text |-> Normalized(variant, rresult.s)])
                        ELSE raw_log
          /\ raw_out' = IF variant \in {"final_filtered", "final_2"} /\ Truthy(rresult)
                        THEN [written |-> TRUE,
                              content |-> Append(raw_out.content,
                                                 [chunk |-> ci + 1,
                                                  text |-> Normalized(variant, rresult.s)])]
                        ELSE raw_out
          /\ IF werr = 0
             THEN /\ category' = Append(category, cat)
                  /\ all_results' = IF cat = "Accepted" /\ variant # "rpg_chunks"
                                    THEN Append(all_results, Normalized(variant, rresult.s))
                                    ELSE all_results
                  /\ low_conf_results' = IF cat = "LowConfidence"
                                         THEN Append(low_conf_results, Normalized(variant, rresult.s))
                                         ELSE low_conf_results
                  /\ failed' = IF lists /\ cat \in {"Failed", "FormatFailed"}
                               THEN Append(failed, FailedEntry(ci))
                               ELSE failed
                  /\ failed_txt' = IF variant = "final_2" /\ cat = "Failed"
                                   THEN [failed_txt EXCEPT !.content = Append(@, TimedOutLine(ci + 1))]
                                   ELSE failed_txt
                  /\ artifacts' = artifacts \o arts
                  /\ ci' = ci + 1
                  /\ rpc' = "loop"
                  /\ rmodel' = "none"
                  /\ UNCHANGED write_errors
             ELSE /\ artifacts' = artifacts \o SubSeq(arts, 1, werr - 1)
                  /\ write_errors' = Append(write_errors, ci + 1)
                  /\ IF variant = "final_2"
                     THEN /\ category' = Append(category, "WriteFailed")
                          /\ failed_txt' = [failed_txt EXCEPT
                                               !.content = Append(@, WriteFailedLine(ci + 1))]
                          /\ ci' = ci + 1
                          /\ rpc' = "loop"
                          /\ rmodel' = "none"
                     ELSE /\ rpc' = "aborted"
                          /\ UNCHANGED <<category, failed_txt, ci, rmodel>>
                  /\ UNCHANGED <<all_results, low_conf_results, failed>>
    /\ UNCHANGED <<variant, chunks, rattempt, rresult, calls, rets, summary>>
    /\ UNCHANGED notRun

\* After the loop: the raw log, SUMMARY.md over the deduplicated accepted
\* results (analyze_rpg_final_2.py: over the accepted results, and only when
\* there are any) and, in the scripts that keep a failure list, FAILED_CHUNKS.txt
Finalize ==
    /\ rpc = "loop"
    /\ ci = Len(chunks)
    /\ summary' = IF variant = "rpg_chunks" THEN summary
                   ELSE IF variant = "final_2"
                        THEN (IF all_results # <<>>
                              THEN [written |-> TRUE, content |-> all_results]
                              ELSE summary)
                   ELSE [written |-> TRUE, content |-> fuzzy_dedupe(all_results)]
    /\ failed_txt' = IF variant \in {"final_batch", "final_filtered"}
                     THEN [written |-> TRUE,
                           content |-> [k \in 1..Len(failed) |-> FailedLine(failed[k])]]
                     ELSE failed_txt
    /\ raw_out' = IF variant = "final_batch"
                  THEN [written |-> TRUE, content |-> raw_log]
                  ELSE raw_out
    /\ rpc' = "done"
    /\ UNCHANGED <<variant, chunks, ci, rmodel, rattempt, rresult, calls, rets, all_results,
                   low_conf_results, failed, category, artifacts, raw_log, write_errors>>
    /\ UNCHANGED notRun

RunNext == SkipTemplateChunk \/ BeginChunk \/ Invoke \/ AfterPrimary \/ CategoriseChunk \/ Finalize

SpecRun == RunInit /\ [][RunNext]_vars

\* History helpers: the subprocess.run calls and the run_ollama returns of one
\* chunk (1-based number) and one model
CallsFor(c, m) == SelectSeq(calls, LAMBDA x : x.chunk = c /\ x.model = m)

RetsFor(c, m) == SelectSeq(rets, LAMBDA x : x.chunk = c /\ x.model = m)

AllTimedOut == \A k \in 1..Len(calls) : calls[k].outcome = TimedOut

HasFailureLog == variant \in {"final_batch", "final_filtered"}

AllFailedOutcome ==
    /\ Len(category) = Len(chunks)
    /\ \A k \in 1..Len(chunks) : category[k] = "Failed"
    /\ all_results = <<>>
    /\ low_conf_results = <<>>
    /\ artifacts = <<>>
    /\ failed_txt.written
    /\ failed_txt.content # <<>>
    /\ failed_txt.content = [k \in 1..Len(chunks) |-> FailedLine(k)]

\* C8 (as stated): if every invocation of both models times out, then after the
\* run every chunk is Failed, nothing is accepted or low-confidence, no
\* per-result file is written, and FAILED_CHUNKS.txt is non-empty with one
\* entry per chunk, the 1-based indices in increasing order.
C8_AllTimeoutsAllFailed ==
    (rpc = "done" /\ HasFailureLog /\ AllTimedOut) => AllFailedOutcome

\* C8 (amended): the same, for a document that yields at least one chunk.
C8_AllTimeoutsAllFailedSomeChunk ==
    (rpc = "done" /\ HasFailureLog /\ AllTimedOut /\ Len(chunks) >= 1) => AllFailedOutcome

C8_Witness ==
    /\ rpc = "done"
    /\ variant = "final_batch"
    /\ Len(chunks) = 2
    /\ Len(calls) = 4
    /\ AllTimedOut
    /\ Len(failed_txt.content) = 2

\* C9: per chunk, the fallback model is invoked exactly when the primary produced
\* no usable text (timed out or empty output), only after the primary's attempts,
\* never after a non-empty primary answer; a chunk is Failed only if the fallback
\* produced no text either; the run goes on after a Failed chunk.
C9_FallbackExactlyOnNoText ==
    /\ \A c \in 1..Len(category) :
         category[c] # "Skipped" =>
            LET pr == RetsFor(c, "primary")
                fr == RetsFor(c, "fallback")
            IN /\ Len(pr) = 1
               /\ (CallsFor(c, "fallback") # <<>>) <=> ~Truthy(pr[1].value)
               /\ category[c] = "Failed" => (Len(fr) = 1 /\ ~Truthy(fr[1].value))
               /\ \A i, j \in 1..Len(calls) :
                    (/\ calls[i].chunk = c /\ calls[i].model = "fallback"
                     /\ calls[j].chunk = c /\ calls[j].model = "primary") => j < i
    /\ rpc = "done" => Len(category) = Len(chunks)

\* C10: run_ollama never raises on a timeout, makes at most N attempts on the
\* same model, a further attempt only after a timeout, returns the stripped
\* output of the first attempt that does not time out, and returns None exactly
\* when all N attempts timed out.
C10_RunOllamaRetries ==
    /\ rpc # "crashed"
    /\ \A r \in 1..Len(rets) :
         LET cs == CallsFor(rets[r].chunk, rets[r].model)
             N == Retries(variant)
             n == Len(cs)
         IN /\ 1 <= n /\ n <= N
            /\ \A k \in 1..n : cs[k].attempt = k
            /\ \A k \in 1..(n - 1) : cs[k].outcome = TimedOut
            /\ IF cs[n].outcome = TimedOut
               THEN n = N /\ rets[r].value = None
               ELSE rets[r].value = Str(Strip(cs[n].outcome.s))
            /\ (rets[r].value = None) <=> (n = N /\ \A k \in 1..n : cs[k].outcome = TimedOut)
    /\ rpc = "invoke" =>
         LET cs == CallsFor(ci + 1, rmodel)
         IN /\ Len(cs) = rattempt
            /\ rattempt < Retries(variant)
            /\ \A k \in 1..Len(cs) : cs[k].outcome = TimedOut

C10_Witness ==
    /\ variant = "with_context"
    /\ Len(rets) = 2
    /\ rets[1].value = None
    /\ rets[2].value = Str(Strip(OUT_VALID))
    /\ Len(calls) = 4
    /\ calls[3].outcome = TimedOut

----------------------------------------------------------------------------
\* The last value run_ollama returned for chunk c: the invoker's result
InvokerResult(c) ==
    LET rs == SelectSeq(rets, LAMBDA x : x.chunk = c)
    IN rs[Len(rs)].value

RecordedKinds == {"md", "docx", "low_conf", "out_section"}

\* C11: in every variant, a chunk for which the invoker produced no text at all
\* (timeouts or empty output) is categorised Failed, and is never recorded as an
\* accepted/extracted use case nor as low-confidence.
C11_NoTextIsFailed ==
    \A c \in 1..Len(category) :
        (category[c] # "Skipped" /\ ~Truthy(InvokerResult(c))) =>
            /\ category[c] = "Failed"
            /\ \A k \in 1..Len(artifacts) :
                  artifacts[k].chunk = c => artifacts[k].kind \notin RecordedKinds

----------------------------------------------------------------------------
\* C12: an error raised while one chunk is processed (a failing write of the
\* chunk's .md/.docx file) does not terminate the run: the error is recorded for
\* that chunk, the remaining chunks are still processed, and the raw log, the
\* summary and the failure log are still written at the end.
C12_ChunkErrorDoesNotEndRun ==
    /\ rpc # "aborted"
    /\ (rpc = "done" /\ write_errors # <<>>) =>
          /\ Len(category) = Len(chunks)
          /\ \A k \in 1..Len(write_errors) : category[write_errors[k]] = "WriteFailed"
          /\ raw_out.written
          /\ failed_txt.written
          /\ Len(failed_txt.content) >= Len(write_errors)
          /\ (summary.written \/ all_results = <<>>)

----------------------------------------------------------------------------
\* The worker-pool run of analyze_rpg_chunks_p2.py: pool.map(process_chunk, args)
\* over a pool of worker processes, then fuzzy_deduplicate and SUMMARY.md

\* 'merged_chunk_' and '.md'
MERGED_CHUNK_WORD == <<"m", "e", "r", "g", "e", "d", "_", "c", "h", "u", "n", "k", "_">>

MD_SUFFIX == <<".", "m", "d">>

\* f"{n:02d}"
ZeroPad2(n) == IF n < 10 THEN <<"0">> \o DecStr(n) ELSE DecStr(n)

\* f"merged_chunk_{index+1:02d}.md"
merged_chunk_file(index) == MERGED_CHUNK_WORD \o ZeroPad2(index + 1) \o MD_SUFFIX

\* Listing lengths that give 0 .. MaxTasks chunks under sliding_chunks
PoolListingLengths == {0} \cup {CHUNK_SIZE + (CHUNK_SIZE - CHUNK_OVERLAP) * k : k \in 0..(MaxTasks - 1)}

\* args = [(i, chunk, template_lines, output_dir) for i, chunk in enumerate(merged_chunks)]
PoolArgs(chs) == [k \in 1..Len(chs) |-> [index |-> k - 1, chunk |-> chs[k]]]

Running(tk) == {t \in DOMAIN tk : tk[t].st \in {"primary", "fallback", "save"}}

\* Mutant of pool_map_ready: the call returns as soon as the first task is done
pool_map_ready_first(tk) == IF DOMAIN tk = {} THEN TRUE ELSE tk[1].st = "done"

\* pool.map blocks until the result of every task is in
pool_map_ready(tk) == \A t \in DOMAIN tk : tk[t].st = "done"

\* Mutant of pool_map: the results come back in the order the tasks finished
\* (what imap_unordered gives)
pool_map_unordered(tk, finished) == [k \in 1..Len(finished) |-> tk[finished[k]].result]

\* pool.map(process_chunk, args): the list of the tasks' return values in the
\* order of args, whatever the order the workers finished in
pool_map(tk, finished) == [t \in 1..Len(tk) |-> tk[t].result]

\* [r for r in results if r]
ValidResults(rs) ==
    LET F[k \in 0..Len(rs)] ==
            IF k = 0 THEN <<>>
            ELSE IF Truthy(rs[k]) THEN Append(F[k - 1], rs[k].s) ELSE F[k - 1]
    IN F[Len(rs)]

PoolInit ==
    /\ PromptIdle
    /\ CvIdle
    /\ NarrIdle
    /\ TitleIdle
    /\ ChunkIdle
    /\ DedupeIdle
    /\ NormIdle
    /\ RunIdle
    /\ \E n \in PoolListingLengths :
          pargs = PoolArgs(sliding_chunks(Listing(n), CHUNK_SIZE, CHUNK_OVERLAP).chunks)
    /\ ptask = [t \in 1..Len(pargs) |-> [st |-> "pending", attempt |-> 0, result |-> None]]
    /\ pfiles = {}
    /\ pmain = "map"
    /\ presults = <<>>
    /\ pfinal = <<>>
    /\ psummary = [written |-> FALSE, content |-> <<>>]
    /\ pfinished = <<>>

\* A free worker process takes a task: process_chunk returns None at once for a
\* chunk with a line of the template, else it builds the prompt and calls
\* run_ollama(PRIMARY_MODEL, prompt)
TaskStart(t) ==
    /\ pmain = "map"
    /\ ptask[t].st = "pending"
    /\ Cardinality(Running(ptask)) < MaxWorkers
    /\ \E similar \in BOOLEAN :
          /\ ptask' = [ptask EXCEPT ![t] = IF similar
                                           THEN [st |-> "done", attempt |-> 0, result |-> None]
                                           ELSE [st |-> "primary", attempt |-> 0, result |-> None]]
          /\ pfinished' = IF similar THEN Append(pfinished, t) ELSE pfinished
    /\ UNCHANGED <<pargs, pfiles, pmain, presults, pfinal, psummary>>
    /\ UNCHANGED notPool

\* One subprocess.run inside run_ollama in task t; after the primary model the
\* task goes on to the fallback model `if result is None`
TaskInvoke(t) ==
    /\ pmain = "map"
    /\ ptask[t].st \in {"primary", "fallback"}
    /\ \E out \in InvocationOutcomes :
          LET a == run_ollama_attempt(out, ptask[t].attempt, RETRIES_SINGLE)
          IN ptask' = [ptask EXCEPT ![t] =
                          IF ~a.returns
                          THEN [@ EXCEPT !.attempt = @ + 1]
                          ELSE IF ptask[t].st = "primary" /\ a.value = None
                          THEN [st |-> "fallback", attempt |-> 0, result |-> None]
                          ELSE [st |-> "save", attempt |-> 0, result |-> a.value]]
    /\ UNCHANGED <<pargs, pfiles, pmain, presults, pfinal, psummary, pfinished>>
    /\ UNCHANGED notPool

\* The end of process_chunk in task t: a non-empty result is written to the
\* task's own file and returned, otherwise None is returned
TaskSave(t) ==
    /\ pmain = "map"
    /\ ptask[t].st = "save"
    /\ IF Truthy(ptask[t].result)
       THEN /\ pfiles' = pfiles \cup {[path |-> merged_chunk_file(pargs[t].index), by |-> t]}
            /\ ptask' = [ptask EXCEPT ![t].st = "done"]
       ELSE /\ ptask' = [ptask EXCEPT ![t] = [st |-> "done", attempt |-> 0, result |-> None]]
            /\ UNCHANGED pfiles
    /\ pfinished' = Append(pfinished, t)
    /\ UNCHANGED <<pargs, pmain, presults, pfinal, psummary>>
    /\ UNCHANGED notPool

\* results = pool.map(process_chunk, args) returns, in the order of args
MapReturn ==
    /\ pmain = "map"
    /\ pool_map_ready(ptask)
    /\ presults' = pool_map(ptask, pfinished)
    /\ pmain' = "dedupe"
    /\ UNCHANGED <<pargs, ptask, pfiles, pfinal, psummary, pfinished>>
    /\ UNCHANGED notPool

\* final = fuzzy_deduplicate([r for r in results if r])
PoolDedupe ==
    /\ pmain = "dedupe"
    /\ pfinal' = fuzzy_dedupe(ValidResults(presults))
    /\ pmain' = "summary"
    /\ UNCHANGED <<pargs, ptask, pfiles, presults, psummary, pfinished>>
    /\ UNCHANGED notPool

\* SUMMARY.md is written
PoolSummary ==
    /\ pmain = "summary"
    /\ psummary' = [written |-> TRUE, content |-> pfinal]
    /\ pmain' = "done"
    /\ UNCHANGED <<pargs, ptask, pfiles, presults, pfinal, pfinished>>
    /\ UNCHANGED notPool

PoolNext ==
    \/ \E t \in DOMAIN ptask : TaskStart(t)
    \/ \E t \in DOMAIN ptask : TaskInvoke(t)
    \/ \E t \in DOMAIN ptask : TaskSave(t)
    \/ MapReturn
    \/ PoolDedupe
    \/ PoolSummary

SpecPool == PoolInit /\ [][PoolNext]_vars

\* C13: in the worker-pool variant deduplication is a barrier: while
\* fuzzy_deduplicate or the summary write is in progress (or over) no chunk task
\* is pending or running, the list handed on holds what each task returned, and
\* a task touches only its own state: every file is written by one task only,
\* under the name made from that task's own index.
C13_DedupeIsBarrier ==
    /\ pmain \in {"dedupe", "summary", "done"} =>
          /\ \A t \in DOMAIN ptask : ptask[t].st = "done"
          /\ Len(presults) = Len(pargs)
          /\ \A t \in DOMAIN ptask : presults[t] = ptask[t].result
    /\ \A f \in pfiles : f.path = merged_chunk_file(pargs[f.by].index)
    /\ \A f, g \in pfiles : f.path = g.path => f.by = g.by
    /\ \A t \in DOMAIN ptask : pargs[t].index = t - 1

C13_Witness ==
    /\ pmain = "summary"
    /\ Len(pargs) = 3
    /\ Cardinality(pfiles) = 2
    /\ presults[1] = None
    /\ Len(pfinal) >= 1

----------------------------------------------------------------------------
\* C14: when the window size W is at most the overlap V (stride W - V <= 0) the
\* chunker fails fast with an error, for W = V and for W < V alike: it does not
\* return a (possibly empty) list of chunks that lets the run go on.
C14_NonPositiveStrideFailsFast ==
    (policy \in {"strict", "permissive"} /\ size <= overlap) => chunked.raised

\* C15: under the permissive policy, for every L and 0 <= V < W, every chunk
\* other than the last has exactly W lines.
C15_OnlyLastChunkShort ==
    (policy = "permissive" /\ 0 <= overlap /\ overlap < size) =>
        \A k \in 1..(Len(chunked.chunks) - 1) : Len(LinesOf(chunked.chunks[k])) = size

----------------------------------------------------------------------------
\* Title / identifier extractor: the regular expressions of the extract_title
\* functions, on ASCII texts

IsUpper(c) == \E k \in 1..Len(UPPER) : UPPER[k] = c

IsLower(c) == \E k \in 1..Len(LOWER) : LOWER[k] = c

IsAlpha(c) == IsUpper(c) \/ IsLower(c)

\* \w
IsWord(c) == IsAlpha(c) \/ IsDigit(c) \/ c = "_"

MinOf(S) == CHOOSE x \in S : \A y \in S : x <= y

MaxOf(S) == CHOOSE x \in S : \A y \in S : x >= y

\* The first position from k on that holds a newline (len + 1 if none)
NextNL(t, k) == MinOf({j \in k..Len(t) : t[j] = NL} \cup {Len(t) + 1})

\* The first position from k on that holds no whitespace: where a greedy \s* stops
SkipWs(t, k) == MinOf({j \in k..Len(t) : ~IsSpace(t[j])} \cup {Len(t) + 1})

\* Where a greedy [A-Z]* and a greedy [\w\-]* that start at k stop
UpperRunEnd(t, k) == MinOf({j \in k..Len(t) : ~IsUpper(t[j])} \cup {Len(t) + 1})

WordRunEnd(t, k) == MinOf({j \in k..Len(t) : ~(IsWord(t[j]) \/ t[j] = "-")} \cup {Len(t) + 1})

\* The positions ^ matches at under re.MULTILINE
LineStarts(t) == {p \in 1..Len(t) : p = 1 \/ t[p - 1] = NL}

\* .* from position e: up to the end of the line
RestOfLine(t, e) == SubSeq(t, e, NextNL(t, e) - 1)

NoMatch == [found |-> FALSE, group |-> <<>>]

Match(g) == [found |-> TRUE, group |-> g]

\* re.search(r"(?i)^#\s*(.*?)\n", text): ^ is the start of the text; \s* takes
\* all the whitespace it can and gives back only when no newline follows
title_at_start(t) ==
    IF ~(Len(t) >= 1 /\ t[1] = "#") THEN NoMatch
    ELSE LET e == SkipWs(t, 2)
         IN IF NextNL(t, e) <= Len(t) THEN Match(RestOfLine(t, e))
            ELSE IF \E j \in 2..(e - 1) : t[j] = NL THEN Match(<<>>)
            ELSE NoMatch

\* The match of #\s*(.+) tried at position p (a line start)
title_plus_at(t, p) ==
    IF t[p] # "#" THEN NoMatch
    ELSE LET e == SkipWs(t, p + 1)
             back == {j \in (p + 1)..Len(t) : t[j] # NL}
         IN IF e <= Len(t) THEN Match(RestOfLine(t, e))
            ELSE IF back # {} THEN Match(<<t[MaxOf(back)]>>)
            ELSE NoMatch

\* re.search(r"^#\s*(.+)", text, re.MULTILINE)
title_line_plus(t) ==
    LET hits == {p \in LineStarts(t) : title_plus_at(t, p).found}
    IN IF hits = {} THEN NoMatch ELSE title_plus_at(t, MinOf(hits))

\* re.search(r"(?i)^#\s*(.*?)$", text, re.MULTILINE)
title_line_lazy(t) ==
    LET hits == {p \in LineStarts(t) : t[p] = "#"}
    IN IF hits = {} THEN NoMatch ELSE Match(RestOfLine(t, SkipWs(t, MinOf(hits) + 1)))

\* 'Untitled', 'XXX', 'UC-', 'UC-AP', 'UC-AP-', 'AP' (MODULE_NAME), 'Use Case ID**:'
UNTITLED == <<"U", "n", "t", "i", "t", "l", "e", "d">>

XXX == <<"X", "X", "X">>

UC_PREFIX == <<"U", "C", "-">>

UC_AP == <<"U", "C", "-", "A", "P">>

UC_AP_PREFIX == <<"U", "C", "-", "A", "P", "-">>

MODULE_NAME == <<"A", "P">>

USE_CASE_ID_COLON == <<"U", "s", "e", " ", "C", "a", "s", "e", " ", "I", "D", "*", "*", ":">>

\* re.sub(r'[^a-zA-Z0-9\- ]+', '', t)
KeepSafe(t) == SelectSeq(t, LAMBDA c : IsAlpha(c) \/ IsDigit(c) \/ c \in {"-", " "})

\* re.sub(r"[^\w\- ]", '', t)
KeepWordHyphenSpace(t) == SelectSeq(t, LAMBDA c : IsWord(c) \/ c \in {"-", " "})

\* re.sub(r'[^\w\s-]', '', t)
KeepWordWsHyphen(t) == SelectSeq(t, LAMBDA c : IsWord(c) \/ IsSpace(c) \/ c = "-")

\* t.replace(' ', '-')
SpacesToHyphens(t) == [k \in 1..Len(t) |-> IF t[k] = " " THEN "-" ELSE t[k]]

\* t.strip('-')
StripHyphens(t) ==
    LET keep == {k \in 1..Len(t) : t[k] # "-"}
    IN IF keep = {} THEN <<>> ELSE SubSeq(t, MinOf(keep), MaxOf(keep))

\* re.sub(r'-+', '-', t)
CollapseHyphens(t) ==
    LET F[k \in 0..Len(t)] ==
            IF k = 0 THEN <<>>
            ELSE IF t[k] = "-" /\ k > 1 /\ t[k - 1] = "-" THEN F[k - 1]
            ELSE Append(F[k - 1], t[k])
    IN F[Len(t)]

\* t[:n]
Truncate(t, n) == SubSeq(t, 1, Min(n, Len(t)))

\* t.split()[-1] for a text with a non-whitespace character
LastToken(t) ==
    LET s == Strip(t)
        ws == {k \in 1..Len(s) : IsSpace(s[k])}
    IN IF ws = {} THEN s ELSE SubSeq(s, MaxOf(ws) + 1, Len(s))

\* t.zfill(3)
ZFill3(t) == IF Len(t) >= 3 THEN t ELSE [k \in 1..(3 - Len(t)) |-> "0"] \o t

\* t.split(".")[0]
BeforeDot(t) ==
    LET dots == {k \in 1..Len(t) : t[k] = "."}
    IN IF dots = {} THEN t ELSE SubSeq(t, 1, MinOf(dots) - 1)

TITLE_MAX == 75

FINAL_NAME_MAX == 80

\* extract_title(text, program) of analyze_rpg_usecases_final_batch.py
extract_title(t, program) ==
    LET \* re.search(r"Use Case ID.*?UC-AP.*?(\d+)", text)
        eol(p) == NextNL(t, p + Len(USE_CASE_ID))
        qs(p) == {q \in (p + Len(USE_CASE_ID))..(eol(p) - 1) :
                     /\ OccursAt(t, UC_AP, q)
                     /\ \E d \in (q + Len(UC_AP))..(eol(p) - 1) : IsDigit(t[d])}
        ps == {p \in 1..Len(t) : OccursAt(t, USE_CASE_ID, p) /\ qs(p) # {}}
        id_part == IF ps = {} THEN XXX
                   ELSE LET p == MinOf(ps)
                            q == MinOf(qs(p))
                            d == MinOf({x \in (q + Len(UC_AP))..(eol(p) - 1) : IsDigit(t[x])})
                        IN ZFill3(SubSeq(t, d, DigitsEnd(t, d)))
        title_match == title_line_lazy(t)
        title == IF title_match.found THEN Strip(title_match.group) ELSE UNTITLED
        clean_title == SpacesToHyphens(KeepSafe(title))
    IN [title |-> title, id |-> id_part,
        name |-> UC_AP_PREFIX \o program \o <<"-">> \o id_part \o <<"-">>
                 \o Truncate(clean_title, TITLE_MAX)]

\* extract_title(text, program) of analyze_rpg_final.py
extract_title_final(t, program) ==
    LET \* re.search(r"Use Case ID.*?UC-AP-[^\n]*", text, re.IGNORECASE)
        lt == Lower(t)
        eol(p) == NextNL(t, p + Len(USE_CASE_ID))
        ps == {p \in 1..Len(t) :
                  /\ OccursAt(lt, Lower(USE_CASE_ID), p)
                  /\ \E q \in (p + Len(USE_CASE_ID))..(eol(p) - 1) :
                        OccursAt(lt, Lower(UC_AP_PREFIX), q)}
        id_part == IF ps = {} THEN XXX
                   ELSE LET p == MinOf(ps)
                        IN StrReplace(LastToken(SubSeq(t, p, eol(p) - 1)), UC_PREFIX, <<>>)
        match_title == title_at_start(t)
        title == IF match_title.found THEN Strip(match_title.group) ELSE UNTITLED
        title_clean == StripHyphens(SpacesToHyphens(KeepSafe(title)))
    IN [title |-> title, id |-> id_part,
        name |-> CollapseHyphens(Truncate(
                     UC_PREFIX \o MODULE_NAME \o <<"-">> \o program \o <<"-">> \o id_part
                     \o <<"-">> \o title_clean, FINAL_NAME_MAX))]

\* extract_title_id(text, program) of analyze_rpg_final_restored.py
extract_title_id(t, program) ==
    LET match_title == title_line_plus(t)
        title == IF match_title.found THEN Strip(match_title.group) ELSE UNTITLED
        title_clean == Truncate(SpacesToHyphens(KeepWordWsHyphen(title)), TITLE_MAX)
        \* re.search(r"Use Case ID\*\*:\s*UC-[A-Z]+-[A-Z]*?(\d+)", text)
        digits(p) ==
            LET e == SkipWs(t, p + Len(USE_CASE_ID_COLON))
                u == UpperRunEnd(t, e + Len(UC_PREFIX))
                v == UpperRunEnd(t, u + 1)
            IN IF /\ OccursAt(t, UC_PREFIX, e)
                  /\ u > e + Len(UC_PREFIX)
                  /\ u <= Len(t) /\ t[u] = "-"
                  /\ v <= Len(t) /\ IsDigit(t[v])
               THEN Match(SubSeq(t, v, DigitsEnd(t, v)))
               ELSE NoMatch
        ps == {p \in 1..Len(t) : OccursAt(t, USE_CASE_ID_COLON, p) /\ digits(p).found}
        uc_id == IF ps = {} THEN XXX ELSE digits(MinOf(ps)).group
    IN [title |-> title, id |-> uc_id,
        name |-> UC_AP_PREFIX \o program \o <<"-">> \o uc_id \o <<"-">> \o title_clean]

\* extract_title(text, program) of analyze_rpg_usecases_batch.py
extract_title_batch(t, program) ==
    LET \* re.search(r"Use Case ID.*?(UC-[\w\-]+)", text, re.IGNORECASE)
        lt == Lower(t)
        eol(p) == NextNL(t, p + Len(USE_CASE_ID))
        qs(p) == {q \in (p + Len(USE_CASE_ID))..(eol(p) - 1) :
                     /\ OccursAt(lt, Lower(UC_PREFIX), q)
                     /\ WordRunEnd(t, q + Len(UC_PREFIX)) > q + Len(UC_PREFIX)}
        ps == {p \in 1..Len(t) : OccursAt(lt, Lower(USE_CASE_ID), p) /\ qs(p) # {}}
        uc_id == IF ps = {} THEN UC_AP_PREFIX \o program \o <<"-">> \o XXX
                 ELSE LET q == MinOf(qs(MinOf(ps)))
                      IN SubSeq(t, q, WordRunEnd(t, q + Len(UC_PREFIX)) - 1)
        match_title == title_at_start(t)
        title == IF match_title.found THEN Strip(match_title.group) ELSE UNTITLED
        safe_title == SpacesToHyphens(Strip(KeepWordHyphenSpace(title)))
    IN [title |-> title, id |-> uc_id,
        name |-> uc_id \o <<"-">> \o Truncate(safe_title, TITLE_MAX)]

\* re.search(r"#\s+(.*)", text): the first '#' anywhere that whitespace follows
title_hash_ws(t) ==
    LET hits == {p \in 1..(Len(t) - 1) : t[p] = "#" /\ IsSpace(t[p + 1])}
    IN IF hits = {} THEN NoMatch ELSE Match(RestOfLine(t, SkipWs(t, MinOf(hits) + 1)))

\* '## Description'
DESCRIPTION_HEADER == HDR_DESCRIPTION

\* re.search(r"## Description\s+(.*)", text, re.IGNORECASE)
desc_rest_of_line(t) ==
    LET n == Len(DESCRIPTION_HEADER)
        hits == {p \in 1..(Len(t) - n) : /\ OccursAt(Lower(t), Lower(DESCRIPTION_HEADER), p)
                                         /\ IsSpace(t[p + n])}
    IN IF hits = {} THEN NoMatch ELSE Match(RestOfLine(t, SkipWs(t, MinOf(hits) + n)))

\* The match of ## Description\s+(.*?)\n (re.DOTALL) tried at position p
desc_to_newline_at(t, p) ==
    LET n == Len(DESCRIPTION_HEADER)
        e == SkipWs(t, p + n)
    IN IF ~(OccursAt(t, DESCRIPTION_HEADER, p) /\ p + n <= Len(t) /\ IsSpace(t[p + n]))
       THEN NoMatch
       ELSE IF NextNL(t, e) <= Len(t) THEN Match(SubSeq(t, e, NextNL(t, e) - 1))
       ELSE IF \E j \in (p + n + 1)..(e - 1) : t[j] = NL THEN Match(<<>>)
       ELSE NoMatch

\* re.search(r"## Description\s+(.*?)\n", text, re.DOTALL)
desc_to_newline(t) ==
    LET hits == {p \in 1..Len(t) : desc_to_newline_at(t, p).found}
    IN IF hits = {} THEN NoMatch ELSE desc_to_newline_at(t, MinOf(hits))

\* normalize_filename(title) of analyze_rpg_final_2.py
normalize_filename(title) ==
    Truncate(StripHyphens(SpacesToHyphens(KeepSafe(title))), TITLE_MAX)

\* The match of UC-AP-[A-Z]*[-]?(AP)?\d+-\d+ tried at position p: the end of the
\* match, 0 when there is none
id_loose_end(t, p) ==
    LET u == UpperRunEnd(t, p + Len(UC_AP_PREFIX))
        digit(k) == k <= Len(t) /\ IsDigit(t[k])
        d == IF digit(u) THEN u
             ELSE IF u <= Len(t) /\ t[u] = "-" /\ digit(u + 1) THEN u + 1
             ELSE IF OccursAt(t, <<"-">> \o MODULE_NAME, u) /\ digit(u + 3) THEN u + 3
             ELSE 0
        e == DigitsEnd(t, d)
    IN IF ~OccursAt(t, UC_AP_PREFIX, p) \/ d = 0 THEN 0
       ELSE IF e + 2 <= Len(t) /\ t[e + 1] = "-" /\ IsDigit(t[e + 2]) THEN DigitsEnd(t, e + 2)
       ELSE 0

\* extract_use_case_id_and_title(text, program) of analyze_rpg_final_2.py; the
\* name is the base_name its caller builds
extract_use_case_id_and_title(t, program) ==
    LET ps == {p \in 1..Len(t) : id_loose_end(t, p) # 0}
        use_case_id == IF ps = {} THEN UC_AP_PREFIX \o program \o <<"-">> \o XXX
                       ELSE Strip(SubSeq(t, MinOf(ps), id_loose_end(t, MinOf(ps))))
        title_match == title_hash_ws(t)
        desc_match == desc_rest_of_line(t)
        title == IF title_match.found THEN Strip(title_match.group)
                 ELSE IF desc_match.found THEN Strip(BeforeDot(desc_match.group))
                 ELSE UNTITLED
        clean_title == normalize_filename(IF title = <<>> THEN UNTITLED ELSE title)
    IN [title |-> title, id |-> use_case_id, name |-> use_case_id \o <<"-">> \o clean_title]

\* extract_title_and_id(text, program) of analyze_rpg_final_3.py; the name is
\* the file name its caller builds
extract_title_and_id(t, program) ==
    LET title_match == title_hash_ws(t)
        title0 == IF title_match.found THEN Strip(title_match.group) ELSE UNTITLED
        desc_match == desc_rest_of_line(t)
        title == IF title0 = <<>> \/ Lower(title0) = Lower(UNTITLED)
                 THEN (IF desc_match.found THEN Strip(BeforeDot(desc_match.group)) ELSE UNTITLED)
                 ELSE title0
        title_clean == Truncate(SpacesToHyphens(KeepSafe(title)), TITLE_MAX)
        \* re.search(r"UC-AP-[0-9]{3}-[0-9]{3}", text)
        n == Len(UC_AP_PREFIX)
        ps == {p \in 1..(Len(t) - n - 6) :
                  /\ OccursAt(t, UC_AP_PREFIX, p)
                  /\ \A k \in {0, 1, 2, 4, 5, 6} : IsDigit(t[p + n + k])
                  /\ t[p + n + 3] = "-"}
        use_case_id == IF ps = {} THEN UC_AP_PREFIX \o program \o <<"-">> \o XXX
                       ELSE SubSeq(t, MinOf(ps), MinOf(ps) + n + 6)
    IN [title |-> title, id |-> use_case_id,
        name |-> use_case_id \o <<"-">> \o (IF title_clean = <<>> THEN UNTITLED ELSE title_clean)]

\* extract_title(text) of analyze_rpg_reliable_usecases.py: the title only
extract_title_reliable(t) ==
    LET title_match == title_line_plus(t)
        desc_match == desc_to_newline(t)
        title == IF title_match.found THEN Strip(title_match.group)
                 ELSE IF desc_match.found THEN BeforeDot(Strip(desc_match.group))
                 ELSE UNTITLED
    IN [title |-> title, id |-> <<>>, name |-> title]

\* re.search(r"(?i)^#\s+(.*?)$", text, re.MULTILINE)
title_line_ws_lazy(t) ==
    LET hits == {p \in LineStarts(t) : t[p] = "#" /\ p + 1 <= Len(t) /\ IsSpace(t[p + 1])}
    IN IF hits = {} THEN NoMatch ELSE Match(RestOfLine(t, SkipWs(t, MinOf(hits) + 1)))

\* 'Description', 'Use-Case', '001'
DESCRIPTION_WORD == <<"D", "e", "s", "c", "r", "i", "p", "t", "i", "o", "n">>

USE_CASE_WORD == <<"U", "s", "e", "-", "C", "a", "s", "e">>

ID_DEFAULT == <<"0", "0", "1">>

CLAUDE_TITLE_MAX == 50

\* The match of ##\s+Description\s+(.*?)(?=\n##|$) (re.DOTALL) tried at position p
desc_section_at(t, p) ==
    LET a == SkipWs(t, p + 2)
        n == Len(DESCRIPTION_WORD)
        e == SkipWs(t, a + n)
        stops == {g \in e..(Len(t) + 1) :
                     \/ OccursAt(t, <<NL, "#", "#">>, g)
                     \/ g = Len(t) + 1
                     \/ (g = Len(t) /\ t[g] = NL)}
    IN IF /\ OccursAt(t, <<"#", "#">>, p)
          /\ a > p + 2
          /\ OccursAt(t, DESCRIPTION_WORD, a)
          /\ e > a + n
       THEN Match(SubSeq(t, e, MinOf(stops) - 1))
       ELSE NoMatch

\* re.search(r"##\s+Description\s+(.*?)(?=\n##|$)", text, re.DOTALL)
desc_section(t) ==
    LET hits == {p \in 1..Len(t) : desc_section_at(t, p).found}
    IN IF hits = {} THEN NoMatch ELSE desc_section_at(t, MinOf(hits))

\* extract_title(text, program) of claude-version.py
extract_title_claude(t, program) ==
    LET \* re.search(r"Use Case ID.*?UC-AP.*?-(\d+)", text)
        eol(p) == NextNL(t, p + Len(USE_CASE_ID))
        hs(q, p) == {h \in (q + Len(UC_AP))..(eol(p) - 2) : t[h] = "-" /\ IsDigit(t[h + 1])}
        qs(p) == {q \in (p + Len(USE_CASE_ID))..(eol(p) - 1) :
                     OccursAt(t, UC_AP, q) /\ hs(q, p) # {}}
        ps == {p \in 1..Len(t) : OccursAt(t, USE_CASE_ID, p) /\ qs(p) # {}}
        id_part == IF ps = {} THEN ID_DEFAULT
                   ELSE LET p == MinOf(ps)
                            h == MinOf(hs(MinOf(qs(p)), p))
                        IN ZFill3(SubSeq(t, h + 1, DigitsEnd(t, h + 1)))
        title_match == title_line_ws_lazy(t)
        desc_match == desc_section(t)
        title == IF title_match.found THEN Strip(title_match.group)
                 ELSE IF desc_match.found
                 THEN Truncate(Strip(desc_match.group), CLAUDE_TITLE_MAX)
                 ELSE USE_CASE_WORD
        clean_title == SpacesToHyphens(KeepSafe(title))
    IN [title |-> title, id |-> id_part,
        name |-> UC_AP_PREFIX \o program \o <<"-">> \o id_part \o <<"-">>
                 \o Truncate(clean_title, CLAUDE_TITLE_MAX)]

\* The response texts the extractors are run on: an optional title line, the
\* Identification header, an optional identifier line, an optional description
TITLE_PAY_VENDOR == <<"#", " ", "P", "a", "y", " ", "V", "e", "n", "d", "o", "r", "\n">>

TITLE_UNSAFE == <<"#", " ", "a", "_", "b", "/", "c", "\n">>

TITLE_LONG == <<"#", " ", "A", "a", "-", "A", "a", "-", "A", "a", "-", "A", "a", "-", "A", "a", "-", "A", "a", "-", "A", "a", "-", "A", "a", "-", "A", "a", "-", "A", "a", "-", "A", "a", "-", "A", "a", "-", "A", "a", "-", "A", "a", "-", "A", "a", "-", "A", "a", "-", "A", "a", "-", "A", "a", "-", "A", "a", "-", "A", "a", "-", "A", "a", "-", "A", "a", "-", "A", "a", "-", "A", "a", "-", "A", "a", "-", "A", "a", "-", "A", "a", "-", "\n">>

TITLE_BARE == <<"#", "\n">>

ID_LINE_PLAIN == <<"*", "*", "U", "s", "e", " ", "C", "a", "s", "e", " ", "I", "D", "*", "*", ":", " ", "U", "C", "-", "A", "P", "-", "1", "6", "0", "-", "7", "\n">>

ID_LINE_SLASH == <<"*", "*", "U", "s", "e", " ", "C", "a", "s", "e", " ", "I", "D", "*", "*", ":", " ", "U", "C", "-", "A", "P", "-", "1", "6", "0", "/", "7", "\n">>

DESCRIPTION_SECTION == <<"#", "#", " ", "D", "e", "s", "c", "r", "i", "p", "t", "i", "o", "n", "\n", "P", "a", "y", "s", " ", "a", " ", "v", "e", "n", "d", "o", "r", ".", " ", "T", "h", "e", "n", " ", "m", "o", "r", "e", ".", "\n">>

TitleLines == {TITLE_PAY_VENDOR, TITLE_UNSAFE, <<>>, TITLE_LONG, TITLE_BARE}

IdLines == {ID_LINE_PLAIN, ID_LINE_SLASH, <<>>}

DescriptionSections == {DESCRIPTION_SECTION, <<>>}

TitleTexts ==
    {tl \o HDR_IDENTIFICATION \o <<NL>> \o il \o ds :
        tl \in TitleLines, il \in IdLines, ds \in DescriptionSections}

TitleVariants == {"final_batch", "final", "restored", "batch", "final_2", "final_3", "reliable",
                  "claude"}

\* The extractors that return a file name
NameVariants == {"final_batch", "final", "restored", "batch"}

\* The extractor of each script
Extract(v, t) ==
    IF v = "final_batch" THEN extract_title(t, PROGRAM)
    ELSE IF v = "final" THEN extract_title_final(t, PROGRAM)
    ELSE IF v = "restored" THEN extract_title_id(t, PROGRAM)
    ELSE IF v = "batch" THEN extract_title_batch(t, PROGRAM)
    ELSE IF v = "final_2" THEN extract_use_case_id_and_title(t, PROGRAM)
    ELSE IF v = "final_3" THEN extract_title_and_id(t, PROGRAM)
    ELSE IF v = "claude" THEN extract_title_claude(t, PROGRAM)
    ELSE extract_title_reliable(t)

TitleInit ==
    /\ PromptIdle
    /\ CvIdle
    /\ NarrIdle
    /\ ChunkIdle
    /\ DedupeIdle
    /\ NormIdle
    /\ RunIdle
    /\ PoolIdle
    /\ xtext \in TitleTexts
    /\ xvariant \in TitleVariants
    /\ xout = [title |-> <<>>, id |-> <<>>, name |-> <<>>]
    /\ xpc = "ready"
    /\ xprev = NoCall

ExtractTitle ==
    /\ xpc = "ready"
    /\ xout' = Extract(xvariant, xtext)
    /\ xpc' = "done"
    /\ UNCHANGED <<xtext, xvariant, xprev>>
    /\ UNCHANGED notTitle

\* The run goes on to its next accepted result and calls the extractor on it
NextResponse ==
    /\ xpc = "done"
    /\ ~xprev.made
    /\ xprev' = [made |-> TRUE, text |-> xtext, out |-> xout]
    /\ xtext' \in TitleTexts
    /\ xpc' = "ready"
    /\ UNCHANGED <<xvariant, xout>>
    /\ UNCHANGED notTitle

TitleNext == ExtractTitle \/ NextResponse

SpecTitle == TitleInit /\ [][TitleNext]_vars

\* C16: the file-system-safe name the extractor returns consists only of ASCII
\* letters, digits, spaces and hyphens; no other character of the response
\* reaches the file name.
C16_NameHasSafeCharsOnly ==
    (xpc = "done" /\ xvariant \in NameVariants) =>
        \A k \in 1..Len(xout.name) :
            IsAlpha(xout.name[k]) \/ IsDigit(xout.name[k]) \/ xout.name[k] \in {"-", " "}

\* C17: the whole name the extractor returns is truncated to the configured
\* maximum: it is never longer than 75 characters.
C17_NameAtMost75 ==
    (xpc = "done" /\ xvariant \in NameVariants) => Len(xout.name) <= TITLE_MAX

----------------------------------------------------------------------------
\* The title the response states: the text of its first top-level heading line
\* ('# ' at the start of a line), else the first sentence of its Description
\* section, else the placeholder
TopLevelHeadings(t) == {p \in LineStarts(t) : OccursAt(t, <<"#", " ">>, p)}

DescriptionSectionsOf(t) == {p \in LineStarts(t) : OccursAt(t, DESCRIPTION_HEADER \o <<NL>>, p)}

StatedTitle(t) ==
    IF TopLevelHeadings(t) # {}
    THEN Strip(RestOfLine(t, MinOf(TopLevelHeadings(t)) + 2))
    ELSE IF DescriptionSectionsOf(t) # {}
    THEN Strip(BeforeDot(RestOfLine(t, MinOf(DescriptionSectionsOf(t))
                                       + Len(DESCRIPTION_HEADER) + 1)))
    ELSE UNTITLED

TitleOnlyVariants == {"final_2", "final_3", "reliable"}

\* C18: the extracted title is the text of the first top-level ('# ') heading
\* line when there is one, otherwise the first sentence of the Description
\* section when there is one, otherwise the placeholder; a '## ' section heading
\* is never taken as the title.
C18_TitleFromTopLevelHeading ==
    (xpc = "done" /\ xvariant \in TitleOnlyVariants) => xout.title = StatedTitle(xtext)

----------------------------------------------------------------------------
\* An identifier of the expected shape in the text: UC-AP-<program>-<digits>
StatedIds(t) ==
    LET pre == UC_AP_PREFIX \o PROGRAM \o <<"-">>
    IN {p \in 1..Len(t) : /\ OccursAt(t, pre, p)
                          /\ p + Len(pre) <= Len(t)
                          /\ IsDigit(t[p + Len(pre)])
                          /\ (p = 1 \/ ~(IsWord(t[p - 1]) \/ t[p - 1] = "-"))
                          /\ LET e == DigitsEnd(t, p + Len(pre))
                             IN e = Len(t) \/ ~(IsWord(t[e + 1]) \/ t[e + 1] \in {"-", "/"})}

\* Its sequence number
StatedSequence(t) ==
    LET d == MinOf(StatedIds(t)) + Len(UC_AP_PREFIX \o PROGRAM \o <<"-">>)
    IN SubSeq(t, d, DigitsEnd(t, d))

IdVariants == {"final_batch", "claude"}

\* C19: the identifier used for a result is the one present in its text when
\* that has the expected shape UC-AP-<module code>-<sequence number>; otherwise
\* it is made from a counter that grows with every result of the run, so two
\* results of one run without an explicit identifier get different identifiers.
C19_IdentifierFromTextOrCounter ==
    (xpc = "done" /\ xvariant \in IdVariants) =>
        /\ StatedIds(xtext) # {} =>
              xout.id \in {StatedSequence(xtext), ZFill3(StatedSequence(xtext))}
        /\ (xprev.made /\ StatedIds(xtext) = {} /\ StatedIds(xprev.text) = {}) =>
              xout.id # xprev.out.id

----------------------------------------------------------------------------
\* The narrative formatters: format_narrative of
\* analyze_rpg_usecases_final_batch.py and analyze_rpg_final.py,
\* to_narrative_format of analyze_ap160_with_context.py

\* headers / sections: the seven section names, in the order of the list
NARRATIVE_HEADERS == <<<<"I", "d", "e", "n", "t", "i", "f", "i", "c", "a", "t", "i", "o", "n">>,
                      <<"D", "e", "s", "c", "r", "i", "p", "t", "i", "o", "n">>,
                      <<"P", "r", "e", "-", "C", "o", "n", "d", "i", "t", "i", "o", "n">>,
                      <<"P", "o", "s", "t", "-", "C", "o", "n", "d", "i", "t", "i", "o", "n">>,
                      <<"E", "n", "t", "i", "t", "i", "e", "s", " ", "U", "s", "e", "d", " ", "/", " ", "T", "a", "b", "l", "e", "s", " ", "U", "s", "e", "d">>,
                      <<"P", "r", "o", "g", "r", "a", "m", " ", "S", "t", "e", "p", "s">>,
                      <<"T", "e", "s", "t", "s", " ", "N", "e", "e", "d", "e", "d">>>>

\* 'Use Case Template\n'
USE_CASE_TEMPLATE_LINE == <<"U", "s", "e", " ", "C", "a", "s", "e", " ", "T", "e", "m", "p", "l", "a", "t", "e", "\n">>

\* '### '
H3_PREFIX == <<"#", "#", "#", " ">>

\* Where a greedy #+ that starts at k stops
HashRunEnd(t, k) == MinOf({j \in k..Len(t) : t[j] # "#"} \cup {Len(t) + 1})

\* Where the text after ##+\s+<h> starts when that matches at p, else 0
header_end(t, h, p, ignorecase) ==
    LET r == HashRunEnd(t, p)
        e == SkipWs(t, r)
    IN IF /\ r >= p + 2
          /\ e > r
          /\ IF ignorecase THEN OccursAt(Lower(t), Lower(h), e) ELSE OccursAt(t, h, e)
       THEN e + Len(h)
       ELSE 0

\* re.search(f"##+\s+{re.escape(h)}(.*?)(?=\n## |$)", text, re.DOTALL)
section_final_batch(t, h) ==
    LET hits == {p \in 1..Len(t) : header_end(t, h, p, FALSE) # 0}
    IN IF hits = {} THEN NoMatch
       ELSE LET s == header_end(t, h, MinOf(hits), FALSE)
                stops == {g \in s..(Len(t) + 1) :
                             \/ OccursAt(t, <<NL>> \o HDR_PREFIX, g)
                             \/ g = Len(t) + 1
                             \/ (g = Len(t) /\ t[g] = NL)}
            IN Match(SubSeq(t, s, MinOf(stops) - 1))

\* re.search(f"##+\s+{re.escape(sec)}(.*?)((?=## )|\Z)", text, re.DOTALL | re.IGNORECASE)
section_final(t, sec) ==
    LET hits == {p \in 1..Len(t) : header_end(t, sec, p, TRUE) # 0}
    IN IF hits = {} THEN NoMatch
       ELSE LET s == header_end(t, sec, MinOf(hits), TRUE)
                stops == {g \in s..(Len(t) + 1) :
                             OccursAt(t, HDR_PREFIX, g) \/ g = Len(t) + 1}
            IN Match(SubSeq(t, s, MinOf(stops) - 1))

\* format_narrative(text) of analyze_rpg_usecases_final_batch.py
RECURSIVE format_narrative_loop(_, _)
format_narrative_loop(t, k) ==
    IF k > Len(NARRATIVE_HEADERS) THEN <<>>
    ELSE LET h == NARRATIVE_HEADERS[k]
             m == section_final_batch(t, h)
         IN (IF m.found THEN <<H3_PREFIX \o h \o <<NL>> \o Strip(m.group) \o <<NL>>>> ELSE <<>>)
            \o format_narrative_loop(t, k + 1)

format_narrative(t) == Join(<<USE_CASE_TEMPLATE_LINE>> \o format_narrative_loop(t, 1))

\* format_narrative(text) of analyze_rpg_final.py
RECURSIVE format_narrative_final_loop(_, _)
format_narrative_final_loop(t, k) ==
    IF k > Len(NARRATIVE_HEADERS) THEN <<>>
    ELSE LET sec == NARRATIVE_HEADERS[k]
             match == section_final(t, sec)
         IN (IF match.found THEN <<H3_PREFIX \o sec \o <<NL>>, Strip(match.group) \o <<NL>>>>
             ELSE <<>>)
            \o format_narrative_final_loop(t, k + 1)

format_narrative_final(t) == Join(<<USE_CASE_TEMPLATE_LINE>> \o format_narrative_final_loop(t, 1))

\* text.splitlines() for a text whose only line break is '\n'
splitlines(t) ==
    LET parts == Split(t)
    IN IF parts[Len(parts)] = <<>> THEN SubSeq(parts, 1, Len(parts) - 1) ELSE parts

\* The words the section titles are recognised by, 'identification' ... 'test'
WORD_IDENTIFICATION == <<"i", "d", "e", "n", "t", "i", "f", "i", "c", "a", "t", "i", "o", "n">>

WORD_DESCRIPTION == <<"d", "e", "s", "c", "r", "i", "p", "t", "i", "o", "n">>

WORD_PRE_CONDITION == <<"p", "r", "e", "-", "c", "o", "n", "d", "i", "t", "i", "o", "n">>

WORD_POST_CONDITION == <<"p", "o", "s", "t", "-", "c", "o", "n", "d", "i", "t", "i", "o", "n">>

WORD_ENTITIES_USED == <<"e", "n", "t", "i", "t", "i", "e", "s", " ", "u", "s", "e", "d">>

WORD_TABLES_USED == <<"t", "a", "b", "l", "e", "s", " ", "u", "s", "e", "d">>

WORD_STEPS == <<"s", "t", "e", "p", "s">>

WORD_TEST == <<"t", "e", "s", "t">>

\* The section a heading line r"^##+\s+(.*)" switches to: 1..7, 0 for None,
\* -1 when the line is no heading
heading_section(line) ==
    LET r == HashRunEnd(line, 1)
        norm == Lower(Strip(SubSeq(line, r, Len(line))))
    IN IF ~(r >= 3 /\ r <= Len(line) /\ IsSpace(line[r])) THEN -1
       ELSE IF Contains(norm, WORD_IDENTIFICATION) THEN 1
       ELSE IF Contains(norm, WORD_DESCRIPTION) THEN 2
       ELSE IF Contains(norm, WORD_PRE_CONDITION) THEN 3
       ELSE IF Contains(norm, WORD_POST_CONDITION) THEN 4
       ELSE IF Contains(norm, WORD_ENTITIES_USED) \/ Contains(norm, WORD_TABLES_USED) THEN 5
       ELSE IF Contains(norm, WORD_STEPS) THEN 6
       ELSE IF Contains(norm, WORD_TEST) THEN 7
       ELSE 0

\* The loop over the lines: sections[current] collects the stripped lines
RECURSIVE to_narrative_scan(_, _, _, _)
to_narrative_scan(ls, k, current, secs) ==
    IF k > Len(ls) THEN secs
    ELSE LET hs == heading_section(ls[k])
         IN IF hs >= 0 THEN to_narrative_scan(ls, k + 1, hs, secs)
            ELSE IF current # 0
            THEN to_narrative_scan(ls, k + 1, current,
                     [secs EXCEPT ![current] = @ \o Strip(ls[k]) \o <<NL>>])
            ELSE to_narrative_scan(ls, k + 1, current, secs)

\* The stripped non-empty lines of the Identification section, joined again
identification_spacing(body) ==
    IF body = <<>> THEN body
    ELSE LET ls == splitlines(body)
             stripped == [k \in 1..Len(ls) |-> Strip(ls[k])]
         IN Join(SelectSeq(stripped, LAMBDA l : l # <<>>))

RECURSIVE to_narrative_result(_, _)
to_narrative_result(secs, k) ==
    IF k > Len(NARRATIVE_HEADERS) THEN <<>>
    ELSE <<H3_PREFIX \o NARRATIVE_HEADERS[k] \o <<NL>>, Strip(secs[k]) \o <<NL>>>>
         \o to_narrative_result(secs, k + 1)

\* to_narrative_format(use_case_text) of analyze_ap160_with_context.py
to_narrative_format(t) ==
    LET scanned == to_narrative_scan(splitlines(t), 1, 0,
                                     [k \in 1..Len(NARRATIVE_HEADERS) |-> <<>>])
        secs == [scanned EXCEPT ![1] = identification_spacing(@)]
    IN Strip(Join(<<USE_CASE_TEMPLATE_LINE>> \o to_narrative_result(secs, 1)))

\* '## Identification' (analyze_rpg_final.py accepts on any of three markers)
is_valid_output_final(t) ==
    Contains(t, USE_CASE_ID) \/ Contains(t, HDR_IDENTIFICATION) \/ Contains(t, HDR_DESCRIPTION)

NarrVariants == {"final_batch", "final", "with_context"}

\* Whether the script keeps the text t in all_results
NarrAccepted(v, t) ==
    IF v = "final_batch" THEN is_valid_output(t)
    ELSE IF v = "final" THEN is_valid_output_final(t)
    ELSE is_structured_output(t)

Narrative(v, t) ==
    IF v = "final_batch" THEN format_narrative(t)
    ELSE IF v = "final" THEN format_narrative_final(t)
    ELSE to_narrative_format(t)

\* The result texts the formatters are run on: for every set of the seven
\* sections, the response that has those sections, each with a one-line body.
\* '**Use Case ID**: UC-AP-160-7' and 'Text.'
BODY_IDENTIFICATION == <<"*", "*", "U", "s", "e", " ", "C", "a", "s", "e", " ", "I", "D", "*", "*", ":", " ", "U", "C", "-", "A", "P", "-", "1", "6", "0", "-", "7">>

BODY_TEXT == <<"T", "e", "x", "t", ".">>

RECURSIVE ResponseWith(_, _)
ResponseWith(S, k) ==
    IF k > Len(NARRATIVE_HEADERS) THEN <<>>
    ELSE (IF k \in S
          THEN HDR_PREFIX \o NARRATIVE_HEADERS[k] \o <<NL>>
               \o (IF k = 1 THEN BODY_IDENTIFICATION ELSE BODY_TEXT) \o <<NL>>
          ELSE <<>>)
         \o ResponseWith(S, k + 1)

NarrTexts == {ResponseWith(S, 1) : S \in SUBSET (1..Len(NARRATIVE_HEADERS))}

NarrInit ==
    /\ PromptIdle
    /\ CvIdle
    /\ ChunkIdle /\ DedupeIdle /\ NormIdle /\ RunIdle /\ PoolIdle /\ TitleIdle
    /\ uvariant \in NarrVariants
    /\ utext \in {t \in NarrTexts : NarrAccepted(uvariant, t)}
    /\ unarr = <<>>
    /\ upc = "ready"

\* The summary loop formats one accepted result
FormatNarrative ==
    /\ upc = "ready"
    /\ unarr' = Narrative(uvariant, utext)
    /\ upc' = "done"
    /\ UNCHANGED <<utext, uvariant>>
    /\ UNCHANGED notNarr

NarrNext == FormatNarrative

SpecNarr == NarrInit /\ [][NarrNext]_vars

\* The names on the heading lines ('### <name>') of a narrative, in order
HeadingNames(n) ==
    LET ls == Split(n)
        hl == SelectSeq(ls, LAMBDA l : OccursAt(l, H3_PREFIX, 1))
    IN [k \in 1..Len(hl) |-> SubSeq(hl[k], Len(H3_PREFIX) + 1, Len(hl[k]))]

\* The text of a narrative between its k-th heading line and the next one
NarrativeBody(n, k) ==
    LET starts == {p \in LineStarts(n) : OccursAt(n, H3_PREFIX, p)}
        nth(j) == CHOOSE p \in starts : Cardinality({q \in starts : q < p}) = j - 1
        from == NextNL(n, nth(k)) + 1
        to == IF k < Cardinality(starts) THEN nth(k + 1) - 1 ELSE Len(n)
    IN SubSeq(n, from, to)

\* C20: the narrative of an accepted result text holds each of the seven
\* section names exactly once, in the fixed order, and a section the text
\* lacks is rendered as an empty section.
C20_NarrativeHasSevenSections ==
    (upc = "done" /\ NarrAccepted(uvariant, utext)) =>
        /\ HeadingNames(unarr) = NARRATIVE_HEADERS
        /\ \A k \in 1..Len(NARRATIVE_HEADERS) :
               ~Contains(utext, HDR_PREFIX \o NARRATIVE_HEADERS[k]) =>
                   Strip(NarrativeBody(unarr, k)) = <<>>

----------------------------------------------------------------------------
\* is_structured_output(text) of analyze_ap160_with_context_loose.py
sections_loose == <<HDR_IDENTIFICATION, HDR_DESCRIPTION, HDR_PROCESS_STEPS,
                    HDR_VALIDATION_CHECKS, HDR_INPUT_VALIDATION, HDR_VALIDATION_RULES,
                    HDR_ENTITIES_TABLES, HDR_ENTITIES_USED, HDR_TABLES_USED, HDR_FLOWCHART>>

is_structured_output_loose(t) ==
    Cardinality({k \in 1..Len(sections_loose) : Contains(t, sections_loose[k])})
        >= STRUCTURED_MIN_SECTIONS

\* The expected sections, each with its synonym spellings
SectionSpellings == {{HDR_IDENTIFICATION}, {HDR_DESCRIPTION}, {HDR_PROCESS_STEPS},
                     {HDR_VALIDATION_CHECKS, HDR_INPUT_VALIDATION, HDR_VALIDATION_RULES},
                     {HDR_ENTITIES_TABLES, HDR_ENTITIES_USED, HDR_TABLES_USED},
                     {HDR_FLOWCHART}}

\* The number of distinct expected sections present in a text
DistinctSections(t) ==
    Cardinality({S \in SectionSpellings : \E h \in S : Contains(t, h)})

\* C21: a normalized response is accepted by is_structured_output only if at
\* least 3 distinct expected sections are present; synonym spellings of one
\* section count once.
C21_AcceptedHasThreeDistinctSections ==
    (npasses = 1 /\ nvariant \in {"with_context", "loose"}
       /\ (IF nvariant = "loose" THEN is_structured_output_loose(nout)
           ELSE is_structured_output(nout)))
        => DistinctSections(nout) >= STRUCTURED_MIN_SECTIONS

----------------------------------------------------------------------------
\* Python floats (IEEE-754 doubles).  A double x with 0 <= x < 2 is kept as the
\* natural number x * 2^57, in two digits of base 2^28: <<hi, lo>>.

FloatBase == 2^28

\* 0 (the int the score starts from), 0.1, 0.05 and 0.5 as doubles
F_ZERO == <<0, 0>>

F_TENTH == <<53687091, 53687092>>

F_TWENTIETH == <<26843545, 161061274>>

F_HALF == <<268435456, 0>>

\* The number of binary digits of n >= 1
BitLength(n) == CHOOSE k \in 1..31 : 2^(k - 1) <= n /\ n < 2^k

\* x + y: the exact sum, rounded to 53 significant bits, ties to even
FloatAdd(x, y) ==
    LET lo0 == x[2] + y[2]
        hi == x[1] + y[1] + (lo0 \div FloatBase)
        lo == lo0 % FloatBase
        s == IF hi = 0 THEN 0 ELSE 28 + BitLength(hi) - 53
    IN IF s <= 0 THEN <<hi, lo>>
       ELSE LET unit == 2^s
                r == lo % unit
                down == lo - r
                up == (r * 2 > unit) \/ (r * 2 = unit /\ (lo \div unit) % 2 = 1)
                lo2 == IF up THEN down + unit ELSE down
            IN <<hi + (lo2 \div FloatBase), lo2 % FloatBase>>

\* x >= y
FloatGe(x, y) == x[1] > y[1] \/ (x[1] = y[1] /\ x[2] >= y[2])

----------------------------------------------------------------------------
\* claude-version.py: normalize_headers, calculate_acceptance_score, is_valid_output

\* 'Use Case ID**: UC-AP-{program}-': the pattern is a raw string, not an
\* f-string, so the braces and the word between them are matched literally
ID_PREFIX_LITERAL_PROGRAM == <<"U", "s", "e", " ", "C", "a", "s", "e", " ", "I", "D", "*", "*", ":", " ", "U", "C", "-", "A", "P", "-", "{", "p", "r", "o", "g", "r", "a", "m", "}", "-">>

\* re.sub(r"(Use Case ID\*\*: UC-AP-{program}-)([^0-9])", r"\1001\2", text):
\* in the template, \100 is the octal escape of '@' and the 1 after it is a
\* literal, so a match is replaced by '@1' and its last character
RECURSIVE SubLiteralProgram(_)
SubLiteralProgram(t) ==
    LET pat == ID_PREFIX_LITERAL_PROGRAM
        hits == {k \in 1..Len(t) : /\ OccursAt(t, pat, k)
                                   /\ k + Len(pat) <= Len(t)
                                   /\ ~IsDigit(t[k + Len(pat)])}
    IN IF hits = {} THEN t
       ELSE LET k == MinOf(hits)
                e == k + Len(pat)
            IN SubSeq(t, 1, k - 1) \o <<"@", "1", t[e]>>
               \o SubLiteralProgram(SubSeq(t, e + 1, Len(t)))

\* '# AP', ' Use Case\n'
TITLE_AP == <<"#", " ", "A", "P">>

TITLE_USE_CASE == <<" ", "U", "s", "e", " ", "C", "a", "s", "e", "\n">>

\* re.search(r"^#\s+", text, re.MULTILINE)
has_title_line(t) ==
    \E p \in LineStarts(t) : t[p] = "#" /\ p + 1 <= Len(t) /\ IsSpace(t[p + 1])

\* normalize_headers(text, program) of claude-version.py
normalize_headers_claude(t, program) ==
    LET fixed == SubLiteralProgram(SubUseCaseId(ApplyReplacements(t, 1), program))
    IN IF ~has_title_line(fixed) THEN TITLE_AP \o program \o TITLE_USE_CASE \o fixed
       ELSE fixed

\* required_sections of calculate_acceptance_score
required_sections_claude == <<<<"U", "s", "e", " ", "C", "a", "s", "e", " ", "I", "D">>,
                             <<"#", "#", " ", "D", "e", "s", "c", "r", "i", "p", "t", "i", "o", "n">>,
                             <<"#", "#", " ", "P", "r", "e", "-", "C", "o", "n", "d", "i", "t", "i", "o", "n">>,
                             <<"#", "#", " ", "P", "o", "s", "t", "-", "C", "o", "n", "d", "i", "t", "i", "o", "n">>,
                             <<"#", "#", " ", "E", "n", "t", "i", "t", "i", "e", "s", " ", "U", "s", "e", "d", " ", "/", " ", "T", "a", "b", "l", "e", "s", " ", "U", "s", "e", "d">>,
                             <<"#", "#", " ", "P", "r", "o", "g", "r", "a", "m", " ", "S", "t", "e", "p", "s">>,
                             <<"#", "#", " ", "T", "e", "s", "t", "s", " ", "N", "e", "e", "d", "e", "d">>>>

SECTION_CONTENT_MIN == 10

TITLE_MIN == 5

\* re.search(f"{section}(.*?)(?=\n## |$)", text, re.DOTALL) and
\* len(match.group(1).strip()) > 10
section_has_content(t, section) ==
    LET s == Find(t, section, 1) + Len(section)
        stops == {g \in s..(Len(t) + 1) :
                     \/ OccursAt(t, <<NL>> \o HDR_PREFIX, g)
                     \/ g = Len(t) + 1
                     \/ (g = Len(t) /\ t[g] = NL)}
    IN Len(Strip(SubSeq(t, s, MinOf(stops) - 1))) > SECTION_CONTENT_MIN

\* re.search(r"^#\s+.{5,}", text, re.MULTILINE)
has_long_title(t) ==
    \E p \in LineStarts(t) :
        /\ t[p] = "#"
        /\ \E k \in (p + 2)..SkipWs(t, p + 1) :
              /\ k + TITLE_MIN - 1 <= Len(t)
              /\ \A j \in k..(k + TITLE_MIN - 1) : t[j] # NL

\* The score after the sections k.. have been looked at
RECURSIVE score_sections(_, _, _)
score_sections(t, k, score) ==
    IF k > Len(required_sections_claude) THEN score
    ELSE LET section == required_sections_claude[k]
         IN IF ~Contains(t, section) THEN score_sections(t, k + 1, score)
            ELSE IF section # USE_CASE_ID /\ section_has_content(t, section)
            THEN score_sections(t, k + 1, FloatAdd(FloatAdd(score, F_TENTH), F_TWENTIETH))
            ELSE score_sections(t, k + 1, FloatAdd(score, F_TENTH))

\* calculate_acceptance_score(text)
calculate_acceptance_score(t) ==
    LET score == score_sections(t, 1, F_ZERO)
    IN IF has_long_title(t) THEN FloatAdd(score, F_TENTH) ELSE score

\* MIN_ACCEPTANCE_SCORE = 0.5
MIN_ACCEPTANCE_SCORE == F_HALF

\* is_valid_output(text) of claude-version.py
is_valid_output_claude(t) == FloatGe(calculate_acceptance_score(t), MIN_ACCEPTANCE_SCORE)

----------------------------------------------------------------------------
\* Dates, as datetime.now() gives them

\* t.zfill(n)
ZFill(t, n) == IF Len(t) >= n THEN t ELSE [k \in 1..(n - Len(t)) |-> "0"] \o t

\* d.strftime('%m.%d.%Y')
strftime_mdY(d) ==
    ZFill(DecStr(d[2]), 2) \o <<".">> \o ZFill(DecStr(d[3]), 2) \o <<".">> \o ZFill(DecStr(d[1]), 4)

IsLeap(y) == (y % 4 = 0 /\ y % 100 # 0) \/ y % 400 = 0

DaysIn(y, mo) == IF mo = 2 THEN (IF IsLeap(y) THEN 29 ELSE 28)
                 ELSE IF mo \in {4, 6, 9, 11} THEN 30 ELSE 31

\* The date after d
NextDay(d) ==
    IF d[3] < DaysIn(d[1], d[2]) THEN <<d[1], d[2], d[3] + 1>>
    ELSE IF d[2] < 12 THEN <<d[1], d[2] + 1, 1>>
    ELSE <<d[1] + 1, 1, 1>>

\* The dates the run may start on
StartDates == {<<2025, 12, 31>>, <<2024, 2, 28>>}

----------------------------------------------------------------------------
\* claude-version-2.py: normalize_headers, calculate_acceptance_score,
\* is_valid_output and extract_title

\* re.sub(r"# (.+)", r"**\1**", line) on one line: the match runs from the
\* first '# ' that has a character after it to the end of the line
bold_title_line(l) ==
    LET hits == {p \in 1..(Len(l) - 2) : l[p] = "#" /\ l[p + 1] = " "}
    IN IF hits = {} THEN l
       ELSE LET p == MinOf(hits)
            IN SubSeq(l, 1, p - 1) \o <<"*", "*">> \o SubSeq(l, p + 2, Len(l)) \o <<"*", "*">>

\* re.sub(r"# (.+)", r"**\1**", text)
bold_titles(t) == LET ls == Split(t) IN Join([k \in 1..Len(ls) |-> bold_title_line(ls[k])])

\* sections
sections_claude_2 == <<<<"I", "d", "e", "n", "t", "i", "f", "i", "c", "a", "t", "i", "o", "n">>,
                      <<"D", "e", "s", "c", "r", "i", "p", "t", "i", "o", "n">>,
                      <<"P", "r", "e", "-", "C", "o", "n", "d", "i", "t", "i", "o", "n">>,
                      <<"P", "o", "s", "t", "-", "C", "o", "n", "d", "i", "t", "i", "o", "n">>,
                      <<"E", "n", "t", "i", "t", "i", "e", "s", " ", "U", "s", "e", "d", " ", "/", " ", "T", "a", "b", "l", "e", "s", " ", "U", "s", "e", "d">>,
                      <<"P", "r", "o", "c", "e", "s", "s", " ", "S", "t", "e", "p", "s">>,
                      <<"T", "e", "s", "t", "s", " ", "N", "e", "e", "d", "e", "d">>,
                      <<"B", "u", "s", "i", "n", "e", "s", "s", " ", "R", "u", "l", "e", "s">>>>

BUSINESS_RULES == <<"B", "u", "s", "i", "n", "e", "s", "s", " ", "R", "u", "l", "e", "s">>

\* f"**{section}:**"
Marker(section) == <<"*", "*">> \o section \o <<":", "*", "*">>

\* '\n- TBD'
TBD_BODY == <<"\n", "-", " ", "T", "B", "D">>

\* re.sub(rf"{hashes}\s+{re.escape(section)}s?", f"**{section}:**", text)
RECURSIVE sub_section_header(_, _, _)
sub_section_header(t, hashes, section) ==
    LET ends(p) == SkipWs(t, p + Len(hashes))
        hits == {p \in 1..Len(t) : /\ OccursAt(t, hashes, p)
                                   /\ ends(p) > p + Len(hashes)
                                   /\ OccursAt(t, section, ends(p))}
    IN IF hits = {} THEN t
       ELSE LET p == MinOf(hits)
                e == ends(p) + Len(section)
                f == IF e <= Len(t) /\ t[e] = "s" THEN e + 1 ELSE e
            IN SubSeq(t, 1, p - 1) \o Marker(section)
               \o sub_section_header(SubSeq(t, f, Len(t)), hashes, section)

\* Mutant of section_missing: no section is ever found missing
section_missing_never(t, section) == FALSE

\* f"**{section}:**" not in text and section != "Business Rules"
section_missing(t, section) == ~Contains(t, Marker(section)) /\ section # BUSINESS_RULES

\* The loop `for section in sections`, from the k-th section on: the two
\* substitutions, then `text += f"\n\n**{section}:**\n- TBD"` if it is missing
RECURSIVE normalize_sections(_, _)
normalize_sections(t, k) ==
    IF k > Len(sections_claude_2) THEN t
    ELSE LET section == sections_claude_2[k]
             two == sub_section_header(t, <<"#", "#">>, section)
             three == sub_section_header(two, <<"#", "#", "#">>, section)
         IN IF section_missing(three, section)
            THEN normalize_sections(three \o <<NL, NL>> \o Marker(section) \o TBD_BODY, k + 1)
            ELSE normalize_sections(three, k + 1)

\* 'Use Case ID**: UC-AP-' and 'Use Case ID:** UC-AP-'
ID_STARS_COLON == <<"U", "s", "e", " ", "C", "a", "s", "e", " ", "I", "D", "*", "*", ":", " ", "U", "C", "-", "A", "P", "-">>

ID_COLON_STARS == <<"U", "s", "e", " ", "C", "a", "s", "e", " ", "I", "D", ":", "*", "*", " ", "U", "C", "-", "A", "P", "-">>

\* f"{int(digits):02d}"
two_digits(digits) ==
    LET nz == {k \in 1..Len(digits) : digits[k] # "0"}
        n == IF nz = {} THEN <<"0">> ELSE SubSeq(digits, MinOf(nz), Len(digits))
    IN ZFill(n, 2)

\* re.sub(r"Use Case ID\*\*: UC-AP-(\d+)-(\d{3})", repl, text), where repl gives
\* 'Use Case ID:** UC-AP-' + group 1 + '-' + group 2, the latter as
\* f"{int(...):02d}" if `short`
RECURSIVE sub_use_case_id(_, _)
sub_use_case_id(t, short) ==
    LET d(p) == p + Len(ID_STARS_COLON)
        e(p) == DigitsEnd(t, d(p))
        hits == {p \in 1..Len(t) : /\ OccursAt(t, ID_STARS_COLON, p)
                                   /\ e(p) >= d(p)
                                   /\ e(p) + 4 <= Len(t)
                                   /\ t[e(p) + 1] = "-"
                                   /\ \A x \in (e(p) + 2)..(e(p) + 4) : IsDigit(t[x])}
    IN IF hits = {} THEN t
       ELSE LET p == MinOf(hits)
                g2 == SubSeq(t, e(p) + 2, e(p) + 4)
            IN SubSeq(t, 1, p - 1) \o ID_COLON_STARS \o SubSeq(t, d(p), e(p) + 1)
               \o (IF short THEN two_digits(g2) ELSE g2)
               \o sub_use_case_id(SubSeq(t, e(p) + 5, Len(t)), short)

\* re.sub(rf"({prefix}[^\n]+)", lambda m: m.group(1) + "\n\n" + added, text):
\* `added` goes after every line tail that starts with prefix and has a
\* character after it
RECURSIVE insert_after(_, _, _)
insert_after(t, prefix, added) ==
    LET hits == {p \in 1..Len(t) : /\ OccursAt(t, prefix, p)
                                   /\ p + Len(prefix) <= Len(t)
                                   /\ t[p + Len(prefix)] # NL}
    IN IF hits = {} THEN t
       ELSE LET e == NextNL(t, MinOf(hits))
            IN SubSeq(t, 1, e - 1) \o <<NL, NL>> \o added
               \o insert_after(SubSeq(t, e, Len(t)), prefix, added)

\* '**Module Group:**', '**Use Case ID:** ', '**Module Group:', ' Accounts Payable'
MODULE_GROUP_MARKER == <<"*", "*", "M", "o", "d", "u", "l", "e", " ", "G", "r", "o", "u", "p", ":", "*", "*">>

USE_CASE_ID_MARKER_SP == <<"*", "*", "U", "s", "e", " ", "C", "a", "s", "e", " ", "I", "D", ":", "*", "*", " ">>

MODULE_GROUP_PREFIX == <<"*", "*", "M", "o", "d", "u", "l", "e", " ", "G", "r", "o", "u", "p", ":">>

ACCOUNTS_PAYABLE == <<" ", "A", "c", "c", "o", "u", "n", "t", "s", " ", "P", "a", "y", "a", "b", "l", "e">>

\* required_fields when datetime.now() gives the date d: each as
\* <<field.split(":")[0], the rest of the field>>
required_fields(program, d) ==
    <<<<<<"*", "*", "L", "e", "g", "a", "c", "y", " ", "P", "r", "o", "g", "r", "a", "m", " ", "R", "e", "f">>, <<":", "*", "*", " ", "A", "P">> \o program \o <<".", "R", "P", "G", "3", "6">>>>,
      <<<<"*", "*", "V", "e", "r", "s", "i", "o", "n", "*", "*">>, <<":", " ", "1", ".", "0">>>>,
      <<<<"*", "*", "L", "a", "s", "t", " ", "U", "p", "d", "a", "t", "e">>, <<":", "*", "*", " ">> \o strftime_mdY(d)>>,
      <<<<"*", "*", "L", "a", "s", "t", " ", "U", "p", "d", "a", "t", "e", " ", "B", "y">>, <<":", "*", "*", " ", "S", "y", "s", "t", "e", "m", " ", "G", "e", "n", "e", "r", "a", "t", "e", "d">>>>,
      <<<<"*", "*", "C", "r", "e", "a", "t", "e", "d">>, <<":", "*", "*", " ">> \o strftime_mdY(d)>>,
      <<<<"*", "*", "C", "r", "e", "a", "t", "e", "d", " ", "B", "y">>, <<":", "*", "*", " ", "S", "y", "s", "t", "e", "m", " ", "G", "e", "n", "e", "r", "a", "t", "e", "d">>>>,
      <<<<"*", "*", "A", "p", "p", "r", "o", "v", "e", "d", " ", "B", "y", "*", "*">>, <<":", " ", "?">>>>>>

\* The loop `for field in required_fields`, from the k-th field on
RECURSIVE add_required_fields(_, _, _, _)
add_required_fields(t, program, d, k) ==
    IF k > Len(required_fields(program, d)) THEN t
    ELSE LET key == required_fields(program, d)[k][1]
             field == key \o required_fields(program, d)[k][2]
         IN IF ~Contains(t, key)
            THEN add_required_fields(insert_after(t, MODULE_GROUP_PREFIX, field), program, d, k + 1)
            ELSE add_required_fields(t, program, d, k + 1)

\* normalize_headers(text, program) of claude-version-2.py, called when
\* datetime.now() gives the date d
normalize_headers_claude_2(t, program, d) ==
    LET secs == normalize_sections(bold_titles(t), 1)
        ids == sub_use_case_id(sub_use_case_id(secs, FALSE), TRUE)
        grp == IF ~Contains(ids, MODULE_GROUP_MARKER)
               THEN insert_after(ids, USE_CASE_ID_MARKER_SP, MODULE_GROUP_MARKER \o ACCOUNTS_PAYABLE)
               ELSE ids
    IN add_required_fields(grp, program, d, 1)

\* re.search(r"^\*\*([^*]+)\*\*", text.strip())
bold_title(t) ==
    LET s == Strip(t)
        j == MinOf({x \in 3..Len(s) : s[x] = "*"} \cup {Len(s) + 1})
    IN IF Len(s) >= 2 /\ s[1] = "*" /\ s[2] = "*" /\ j >= 4 /\ j + 1 <= Len(s) /\ s[j + 1] = "*"
       THEN Match(SubSeq(s, 3, j - 1))
       ELSE NoMatch

\* required_sections
required_sections_claude_2 == <<<<"*", "*", "U", "s", "e", " ", "C", "a", "s", "e", " ", "I", "D", ":", "*", "*">>,
                               <<"*", "*", "M", "o", "d", "u", "l", "e", " ", "G", "r", "o", "u", "p", ":", "*", "*">>,
                               <<"*", "*", "L", "e", "g", "a", "c", "y", " ", "P", "r", "o", "g", "r", "a", "m", " ", "R", "e", "f", ":", "*", "*">>,
                               <<"*", "*", "D", "e", "s", "c", "r", "i", "p", "t", "i", "o", "n", ":", "*", "*">>,
                               <<"*", "*", "P", "r", "e", "-", "C", "o", "n", "d", "i", "t", "i", "o", "n", ":", "*", "*">>,
                               <<"*", "*", "P", "o", "s", "t", "-", "C", "o", "n", "d", "i", "t", "i", "o", "n", ":", "*", "*">>,
                               <<"*", "*", "E", "n", "t", "i", "t", "i", "e", "s", " ", "U", "s", "e", "d", " ", "/", " ", "T", "a", "b", "l", "e", "s", " ", "U", "s", "e", "d", ":", "*", "*">>,
                               <<"*", "*", "P", "r", "o", "c", "e", "s", "s", " ", "S", "t", "e", "p", "s", ":", "*", "*">>>>

CONTENT_MIN_CLAUDE_2 == 5

\* The lookahead \*\*[^:]+:\*\* at position g
marker_ahead(t, g) ==
    /\ OccursAt(t, <<"*", "*">>, g)
    /\ LET j == MinOf({x \in (g + 2)..Len(t) : t[x] = ":"} \cup {Len(t) + 1})
       IN j >= g + 3 /\ OccursAt(t, <<":", "*", "*">>, j)

\* re.search(f"{re.escape(section)}(.*?)(?=\*\*[^:]+:\*\*|$)", text, re.DOTALL)
\* for a section that occurs in the text, and len(match.group(1).strip()) > 5
section_has_content_claude_2(t, section) ==
    LET s == Find(t, section, 1) + Len(section)
        stops == {g \in s..(Len(t) + 1) :
                     \/ marker_ahead(t, g)
                     \/ g = Len(t) + 1
                     \/ (g = Len(t) /\ t[g] = NL)}
    IN Len(Strip(SubSeq(t, s, MinOf(stops) - 1))) > CONTENT_MIN_CLAUDE_2

\* The score after the sections k.. have been looked at
RECURSIVE score_sections_claude_2(_, _, _)
score_sections_claude_2(t, k, score) ==
    IF k > Len(required_sections_claude_2) THEN score
    ELSE LET section == required_sections_claude_2[k]
         IN IF ~Contains(t, section) THEN score_sections_claude_2(t, k + 1, score)
            ELSE IF section_has_content_claude_2(t, section)
            THEN score_sections_claude_2(t, k + 1, FloatAdd(FloatAdd(score, F_TENTH), F_TWENTIETH))
            ELSE score_sections_claude_2(t, k + 1, FloatAdd(score, F_TENTH))

\* calculate_acceptance_score(text) of claude-version-2.py: the title first
calculate_acceptance_score_claude_2(t) ==
    score_sections_claude_2(t, 1, IF bold_title(t).found THEN FloatAdd(F_ZERO, F_TENTH) ELSE F_ZERO)

\* is_valid_output(text) of claude-version-2.py
is_valid_output_claude_2(t) ==
    FloatGe(calculate_acceptance_score_claude_2(t), MIN_ACCEPTANCE_SCORE)

----------------------------------------------------------------------------
\* process_chunks of claude-version.py and of claude-version-2.py

\* The elements of rs at the positions in S, in order
SelectSeqAt(rs, S) ==
    LET pos(j) == CHOOSE p \in S : Cardinality({q \in S : q < p}) = j - 1
    IN [j \in 1..Cardinality(S) |-> rs[pos(j)]]

ClaudeScripts == {"claude", "claude_2"}

\* '# Pay Vendor\n**Use Case ID**: UC-AP-7\n## Description\n## Pre-Condition\n## Post-Condition\n'
OUT_FULL == <<"#", " ", "P", "a", "y", " ", "V", "e", "n", "d", "o", "r", "\n", "*", "*", "U", "s", "e", " ", "C", "a", "s", "e", " ", "I", "D", "*", "*", ":", " ", "U", "C", "-", "A", "P", "-", "7", "\n", "#", "#", " ", "D", "e", "s", "c", "r", "i", "p", "t", "i", "o", "n", "\n", "#", "#", " ", "P", "r", "e", "-", "C", "o", "n", "d", "i", "t", "i", "o", "n", "\n", "#", "#", " ", "P", "o", "s", "t", "-", "C", "o", "n", "d", "i", "t", "i", "o", "n", "\n">>

\* What one call of the model can do: time out, or print one of these texts
\* '**Pay Vendor**\n**Use Case ID:** UC-AP-160-01\n**Description:**\nPays the vendor.\n'
OUT_TEMPLATE == <<"*", "*", "P", "a", "y", " ", "V", "e", "n", "d", "o", "r", "*", "*", "\n", "*", "*", "U", "s", "e", " ", "C", "a", "s", "e", " ", "I", "D", ":", "*", "*", " ", "U", "C", "-", "A", "P", "-", "1", "6", "0", "-", "0", "1", "\n", "*", "*", "D", "e", "s", "c", "r", "i", "p", "t", "i", "o", "n", ":", "*", "*", "\n", "P", "a", "y", "s", " ", "t", "h", "e", " ", "v", "e", "n", "d", "o", "r", ".", "\n">>

ClaudeOutcomes ==
    {TimedOut, Stdout(OUT_BLANK), Stdout(OUT_FULL), Stdout(OUT_LOOSE), Stdout(OUT_TEMPLATE)}

\* run_ollama(model, prompt) of claude-version.py: one attempt; the stripped
\* output, or None on a timeout or any other exception
run_ollama_claude(out) == IF out.tag = "stdout" THEN Str(Strip(out.s)) ELSE None

\* re.sub(r"(Use Case ID\*\*: UC-AP-{program}-)\d+", rf"\1{str(counter).zfill(3)}", t)
\* for counter < 10: the pattern is a raw string, and in the template \100 is
\* the octal escape of '@', so a match is replaced by '@' and the counter digit
RECURSIVE SubCounterId(_, _)
SubCounterId(t, counter) ==
    LET pat == ID_PREFIX_LITERAL_PROGRAM
        hits == {k \in 1..Len(t) : /\ OccursAt(t, pat, k)
                                   /\ k + Len(pat) <= Len(t)
                                   /\ IsDigit(t[k + Len(pat)])}
    IN IF hits = {} THEN t
       ELSE LET k == MinOf(hits)
                e == DigitsEnd(t, k + Len(pat))
            IN SubSeq(t, 1, k - 1) \o <<"@">> \o DecStr(counter)
               \o SubCounterId(SubSeq(t, e + 1, Len(t)), counter)

\* re.search(r"UC-AP-\d+-\d{3}-", filename)
has_good_id(name) ==
    \E p \in 1..Len(name) :
        /\ OccursAt(name, UC_AP_PREFIX, p)
        /\ LET d == p + Len(UC_AP_PREFIX)
               e == DigitsEnd(name, d)
           IN /\ e >= d
              /\ e + 5 <= Len(name)
              /\ name[e + 1] = "-"
              /\ \A x \in (e + 2)..(e + 4) : IsDigit(name[x])
              /\ name[e + 5] = "-"

\* '-Use-Case', '-Low-Confidence'
USE_CASE_SUFFIX == <<"-", "U", "s", "e", "-", "C", "a", "s", "e">>

LOW_CONFIDENCE_SUFFIX == <<"-", "L", "o", "w", "-", "C", "o", "n", "f", "i", "d", "e", "n", "c", "e">>

LOW_TITLE_MAX == 40

\* f"UC-AP-{program}-{str(use_case_counter).zfill(3)}"
CounterId(program, counter) == UC_AP_PREFIX \o program \o <<"-">> \o ZFill3(DecStr(counter))

\* filename of an accepted result
accepted_filename(t, program, counter) ==
    LET name == extract_title_claude(t, program).name
    IN IF ~has_good_id(name) THEN CounterId(program, counter) \o USE_CASE_SUFFIX ELSE name

\* base_filename of a low-confidence result
low_confidence_filename(t, program, counter) ==
    LET title_match == title_line_ws_lazy(t)
    IN IF title_match.found
       THEN LET clean_title == SpacesToHyphens(KeepSafe(Strip(title_match.group)))
            IN CounterId(program, counter) \o <<"-">> \o Truncate(clean_title, LOW_TITLE_MAX)
       ELSE CounterId(program, counter) \o LOW_CONFIDENCE_SUFFIX

\* The replacement of the identifier in an accepted result of
\* claude-version-2.py: from the first 'Use Case ID**: UC-AP-{program}-' to the
\* end of its line
replace_use_case_id(t, program, counter) ==
    LET id_pattern == ID_STARS_COLON \o program \o <<"-">>
        id_pattern_index == Find(t, id_pattern, 1)
    IN IF id_pattern_index = 0 THEN t
       ELSE SubSeq(t, 1, id_pattern_index - 1) \o id_pattern \o ZFill(DecStr(counter), 2)
            \o SubSeq(t, NextNL(t, id_pattern_index), Len(t))

\* 'Use Case'
USE_CASE_TITLE == <<"U", "s", "e", " ", "C", "a", "s", "e">>

\* f"UC-AP-{program}-{use_case_counter:02d}"
CounterId2(program, counter) == UC_AP_PREFIX \o program \o <<"-">> \o ZFill(DecStr(counter), 2)

\* extract_title(text, program, use_case_counter) of claude-version-2.py
extract_title_claude_2(t, program, counter) ==
    LET title_match == bold_title(t)
        title == IF title_match.found THEN Strip(title_match.group) ELSE USE_CASE_TITLE
        clean_title == CollapseHyphens(SpacesToHyphens(KeepSafe(title)))
    IN CounterId2(program, counter) \o <<"-">> \o Truncate(clean_title, LOW_TITLE_MAX)

\* base_filename of a low-confidence result of claude-version-2.py
low_confidence_filename_claude_2(t, program, counter) ==
    LET title_match == bold_title(t)
    IN IF title_match.found
       THEN LET clean_title == SpacesToHyphens(KeepSafe(Strip(title_match.group)))
            IN CounterId2(program, counter) \o <<"-">> \o Truncate(clean_title, LOW_TITLE_MAX)
       ELSE CounterId2(program, counter) \o LOW_CONFIDENCE_SUFFIX

\* The functions of the script at hand
normalize_headers_of(script, t, program, d) ==
    IF script = "claude" THEN normalize_headers_claude(t, program)
    ELSE normalize_headers_claude_2(t, program, d)

is_valid_output_of(script, t) ==
    IF script = "claude" THEN is_valid_output_claude(t) ELSE is_valid_output_claude_2(t)

fix_use_case_id(script, t, program, counter) ==
    IF script = "claude" THEN SubCounterId(t, counter) ELSE replace_use_case_id(t, program, counter)

accepted_filename_of(script, t, program, counter) ==
    IF script = "claude" THEN accepted_filename(t, program, counter)
    ELSE extract_title_claude_2(t, program, counter)

low_confidence_filename_of(script, t, program, counter) ==
    IF script = "claude" THEN low_confidence_filename(t, program, counter)
    ELSE low_confidence_filename_claude_2(t, program, counter)

\* Listing lengths that give 0..MaxChunks chunks of CHUNK_SIZE lines
ClaudeListingLengths ==
    {0} \cup {(CHUNK_SIZE - CHUNK_OVERLAP) * k + 1 : k \in 0..(MaxChunks - 1)}

ClaudeInit ==
    /\ PromptIdle
    /\ ChunkIdle /\ DedupeIdle /\ NormIdle /\ RunIdle /\ PoolIdle /\ TitleIdle /\ NarrIdle
    /\ cv_script \in ClaudeScripts
    /\ \E n \in ClaudeListingLengths :
           cv_chunks = chunk_lines(Listing(n), CHUNK_SIZE, CHUNK_OVERLAP).chunks
    /\ cv_i = 0
    /\ cv_pc = "primary"
    /\ cv_result = None
    /\ cv_all_results = <<>>
    /\ cv_failed = <<>>
    /\ cv_raw_log = <<>>
    /\ use_case_counter = 1
    /\ cv_category = [k \in 1..Len(cv_chunks) |-> "none"]
    /\ cv_files = {}
    /\ cv_summary = <<>>
    /\ cv_reported = <<>>

\* result = run_ollama(PRIMARY_MODEL, prompt)
ClaudePrimary ==
    /\ cv_pc = "primary"
    /\ cv_i < Len(cv_chunks)
    /\ \E out \in ClaudeOutcomes :
           /\ cv_result' = run_ollama_claude(out)
           /\ cv_pc' = IF ~Truthy(cv_result') THEN "fallback" ELSE "categorise"
    /\ UNCHANGED <<cv_script, cv_chunks, cv_i, cv_all_results, cv_failed, cv_raw_log, use_case_counter,
                   cv_category, cv_files, cv_summary, cv_reported>>
    /\ UNCHANGED notCv

\* if not result: result = run_ollama(FALLBACK_MODEL, prompt)
ClaudeFallback ==
    /\ cv_pc = "fallback"
    /\ \E out \in ClaudeOutcomes : cv_result' = run_ollama_claude(out)
    /\ cv_pc' = "categorise"
    /\ UNCHANGED <<cv_script, cv_chunks, cv_i, cv_all_results, cv_failed, cv_raw_log, use_case_counter,
                   cv_category, cv_files, cv_summary, cv_reported>>
    /\ UNCHANGED notCv

\* The pc after the loop body of chunk cv_i
ClaudeAfterBody == IF cv_i + 1 < Len(cv_chunks) THEN "primary" ELSE "finalize"

\* The date the run is made on
RunDates == {<<2025, 12, 31>>}

\* What the loop body computes from a response: the normalized text, whether
\* it is valid, the text with its identifier renumbered, and the file name
with_filename(script, result, valid, fixed, program, counter) ==
    [result |-> result, valid |-> valid, fixed |-> fixed,
     filename |-> IF valid THEN accepted_filename_of(script, fixed, program, counter)
                  ELSE low_confidence_filename_of(script, result, program, counter)]

with_fixed_id(script, result, valid, program, counter) ==
    with_filename(script, result, valid,
                  IF valid THEN fix_use_case_id(script, result, program, counter) ELSE result,
                  program, counter)

with_validity(script, result, program, counter) ==
    with_fixed_id(script, result, is_valid_output_of(script, result), program, counter)

loop_body_values(script, response, program, counter, d) ==
    with_validity(script, normalize_headers_of(script, response, program, d), program, counter)

\* The writes and appends of the branch `if result:`, o being what the loop
\* body computed. open(md_path, "w") is outside any try, so a failed write
\* ends the run; save_as_docx catches its own errors and returns False
ClaudeRecordResponse(o) ==
    /\ cv_raw_log' = Append(cv_raw_log, o.result)
    /\ UNCHANGED cv_failed
    /\ \E md_ok \in BOOLEAN, docx_ok \in BOOLEAN :
       IF ~md_ok
       THEN /\ cv_pc' = "aborted"
            /\ UNCHANGED <<cv_i, cv_all_results, use_case_counter, cv_category, cv_files>>
       ELSE /\ cv_files' = cv_files
                 \cup {[name |-> o.filename, kind |-> "md", chunk |-> cv_i + 1]}
                 \cup (IF docx_ok
                       THEN {[name |-> o.filename, kind |-> "docx", chunk |-> cv_i + 1]}
                       ELSE {})
            /\ cv_all_results' = IF o.valid THEN Append(cv_all_results, o.fixed)
                                 ELSE cv_all_results
            /\ use_case_counter' = use_case_counter + 1
            /\ cv_category' = [cv_category EXCEPT
                                  ![cv_i + 1] = IF o.valid THEN "accepted" ELSE "low"]
            /\ cv_i' = cv_i + 1
            /\ cv_pc' = ClaudeAfterBody

\* The rest of the loop body: `if result:` ... `else: failed.append(i + 1)`
ClaudeCategorise ==
    /\ cv_pc = "categorise"
    /\ IF Truthy(cv_result)
       THEN \E d \in RunDates :
               ClaudeRecordResponse(
                   loop_body_values(cv_script, cv_result.s, PROGRAM, use_case_counter, d))
       ELSE /\ cv_failed' = Append(cv_failed, cv_i + 1)
            /\ cv_category' = [cv_category EXCEPT ![cv_i + 1] = "failed"]
            /\ cv_i' = cv_i + 1
            /\ cv_pc' = ClaudeAfterBody
            /\ UNCHANGED <<cv_all_results, cv_raw_log, use_case_counter, cv_files>>
    /\ cv_result' = None
    /\ UNCHANGED <<cv_script, cv_chunks, cv_summary, cv_reported>>
    /\ UNCHANGED notCv

\* The subsequences of rs that keep its first element
KeepingFirst(rs) ==
    {SelectSeqAt(rs, S \cup {1}) : S \in SUBSET (2..Len(rs))}

\* What fuzzy_dedupe(all_results) can return. The texts normalize_headers of
\* claude-version-2.py returns are of 200 characters and more, where
\* SequenceMatcher leaves the popular characters out of its index (autojunk);
\* that heuristic is not computed here: for two or more such texts the
\* survivors are any subsequence that keeps the first result
Survivors(script, rs) ==
    IF script = "claude" \/ Len(rs) <= 1 THEN {fuzzy_dedupe(rs)} ELSE KeepingFirst(rs)

\* After the loop: the deduplicated summary, and the counts printed and returned
ClaudeFinalize ==
    /\ \/ cv_pc = "finalize"
       \/ cv_pc = "primary" /\ Len(cv_chunks) = 0
    /\ \E unique_results \in Survivors(cv_script, cv_all_results) :
          /\ cv_summary' = unique_results
          /\ cv_reported' = <<Len(unique_results), use_case_counter - 1, Len(cv_failed)>>
    /\ cv_pc' = "done"
    /\ UNCHANGED <<cv_script, cv_chunks, cv_i, cv_result, cv_all_results, cv_failed, cv_raw_log,
                   use_case_counter, cv_category, cv_files>>
    /\ UNCHANGED notCv

ClaudeNext == ClaudePrimary \/ ClaudeFallback \/ ClaudeCategorise \/ ClaudeFinalize

SpecClaude == ClaudeInit /\ [][ClaudeNext]_vars

\* The chunk numbers that took the given branch
ClaudeCategory(c) == {k \in 1..Len(cv_chunks) : cv_category[k] = c}

\* C22: when process_chunks of claude-version.py has finished, the accepted, low-confidence and
\* failed chunks partition the n chunks, and the counts reported at the end
\* of the run are the sizes of these three sets
C22_ReportedCountsAreCategorySizes ==
    (cv_script = "claude" /\ cv_pc = "done") =>
        /\ ClaudeCategory("accepted") \cup ClaudeCategory("low") \cup ClaudeCategory("failed")
               = 1..Len(cv_chunks)
        /\ Cardinality(ClaudeCategory("accepted")) + Cardinality(ClaudeCategory("low"))
               + Cardinality(ClaudeCategory("failed")) = Len(cv_chunks)
        /\ cv_reported = <<Cardinality(ClaudeCategory("accepted")),
                           Cardinality(ClaudeCategory("low")),
                           Cardinality(ClaudeCategory("failed"))>>

----------------------------------------------------------------------------
\* Order dependence of the deduplicator

\* The re-orderings of a sequence
Reorderings(rs) == {[k \in 1..Len(rs) |-> rs[p[k]]] : p \in Permutations(1..Len(rs))}

\* The inputs of which some re-ordering leaves a different set of survivors
OrderDependent(rs) ==
    \E qs \in Reorderings(rs) : Range(fuzzy_dedupe(qs)) # Range(fuzzy_dedupe(rs))

\* C23: deduplication is not commutative: every finished call that discarded a
\* result which is not itself among the survivors has a permutation of its
\* input for which fuzzy_dedupe returns a different set of survivors (first
\* seen wins), and such calls exist (the witness)
C23_DedupeNotCommutative ==
    (dpc = "done" /\ \E k \in 1..Len(results) : results[k] \notin Range(unique))
        => OrderDependent(results)

\* C23 witness: a finished call whose input, taken in another order, would
\* have left a different set of survivors
C23_Witness ==
    /\ dpc = "done"
    /\ \E k \in 1..Len(results) : results[k] \notin Range(unique)
    /\ OrderDependent(results)
    /\ unique = fuzzy_dedupe(results)

----------------------------------------------------------------------------
\* The prompt builders: build_prompt of analyze_rpg_usecases_final_batch.py
\* and of claude-version-2.py

\* context_block: the context between its two fixed lines `if context`, else ''
context_block(context) ==
    IF Truthy(context) THEN <<"\nReference context from AP200 (not primary logic):\n", context.s, "\n">>
    ELSE <<>>

\* build_prompt(template, chunk, context, program) of
\* analyze_rpg_usecases_final_batch.py: the pieces of the f-string in order,
\* each fixed stretch of text given by its opening words
build_prompt_final_batch(template, chunk, context, program) ==
    <<template, "\nYou are analyzing IBM RPG code from program AP", program,
      ".\nOnly extract meaningful business logic use cases ... No commentary.\n">>
    \o context_block(context)
    \o <<"\n[RPG CODE]\n", chunk, "\n[END CODE]\n">>

\* build_prompt(template, chunk, context, program) of claude-version-2.py,
\* called when datetime.now() gives the date `first` at its first use and
\* `second` at its second: template is not used
build_prompt_claude_2(template, chunk, context, program, first, second) ==
    <<"You are analyzing IBM RPG code ... from program AP", program,
      " and extract ... **Use Case ID:** UC-AP-", program,
      "-XX (where XX is ... **Legacy Program Ref:** AP", program,
      ".RPG36\n\n**Version**: 1.0\n\n**Last Update:** ", strftime_mdY(first),
      "\n\n**Last Update By:** System Generated\n\n**Created:** ", strftime_mdY(second),
      "\n\n**Created By:** System Generated ... **Business Rules:**\n[...]\n\n">>
    \o context_block(context)
    \o <<"\n[RPG CODE]\n", chunk, "\n[END CODE]\n\nBe concise but thorough. ...\n">>

\* The arguments the calls are made with
PromptArgs ==
    [template : {<<>>, <<"T">>}, chunk : {<<"C">>, <<"D">>},
     context : {None, Str(<<"X">>)}, program : {PROGRAM}]

PromptInit ==
    /\ ChunkIdle /\ DedupeIdle /\ NormIdle /\ RunIdle /\ PoolIdle /\ TitleIdle /\ NarrIdle
    /\ CvIdle
    /\ bscript \in {"final_batch", "claude_2"}
    /\ bclock \in StartDates
    /\ bdays = 0
    /\ bcalls = <<>>

\* prompt = build_prompt(...)
BuildPrompt ==
    /\ bscript \in {"final_batch", "claude_2"}
    /\ Len(bcalls) < MaxCalls
    /\ \E a \in PromptArgs :
         LET prompt == IF bscript = "final_batch"
                       THEN build_prompt_final_batch(a.template, a.chunk, a.context, a.program)
                       ELSE build_prompt_claude_2(a.template, a.chunk, a.context, a.program,
                                                  bclock, bclock)
         IN bcalls' = Append(bcalls, [args |-> a, prompt |-> prompt])
    /\ UNCHANGED <<bscript, bclock, bdays>>
    /\ UNCHANGED notPrompt

\* Midnight passes between two calls
DayPasses ==
    /\ bscript \in {"final_batch", "claude_2"}
    /\ bdays < MaxDays
    /\ bclock' = NextDay(bclock)
    /\ bdays' = bdays + 1
    /\ UNCHANGED <<bscript, bcalls>>
    /\ UNCHANGED notPrompt

PromptNext == BuildPrompt \/ DayPasses

SpecPrompt == PromptInit /\ [][PromptNext]_vars

\* C24: two calls of build_prompt with the same (template, chunk, context,
\* program) arguments return the same prompt text, whenever they are made
C24_SameArgumentsSamePrompt ==
    \A i, j \in 1..Len(bcalls) :
        bcalls[i].args = bcalls[j].args => bcalls[i].prompt = bcalls[j].prompt

----------------------------------------------------------------------------
\* The per-result files of analyze_rpg_usecases_final_batch.py

\* md_path of the k-th accepted result: f"{extract_title(result, program)}.md"
\* in the output directory
AcceptedMdPath(k) == extract_title(all_results[k], PROGRAM).name \o <<".", "m", "d">>

\* The .md files the accepted results leave in the output directory: a later
\* open(md_path, "w") of the same path replaces the earlier file
AcceptedMdFiles == {AcceptedMdPath(k) : k \in 1..Len(all_results)}

\* C25: within one run no accepted result is overwritten: two accepted chunks
\* never write the same path, so after the run there are as many per-result
\* .md files as accepted results
C25_NoAcceptedResultOverwritten ==
    (variant = "final_batch" /\ rpc = "done")
        => /\ \A j, k \in 1..Len(all_results) : j # k => AcceptedMdPath(j) # AcceptedMdPath(k)
           /\ Cardinality(AcceptedMdFiles) = Len(all_results)

----------------------------------------------------------------------------
\* The low-confidence branch of claude-version-2.py

\* The markers of the sections normalize_headers adds when they are missing
\* that calculate_acceptance_score looks for
ENSURED_MARKERS == {Marker(sections_claude_2[k]) : k \in {2, 3, 4, 5, 6}}

\* C26: in claude-version-2.py every text normalize_headers returned holds the
\* five markers '**Description:**', '**Pre-Condition:**', '**Post-Condition:**',
\* '**Entities Used / Tables Used:**' and '**Process Steps:**', scores at least
\* MIN_ACCEPTANCE_SCORE, and no chunk takes the low-confidence branch: every
\* chunk that got a response and a category is Accepted
C26_LowConfidenceUnreachable ==
    cv_script = "claude_2" =>
        /\ \A k \in 1..Len(cv_raw_log) :
              /\ \A mk \in ENSURED_MARKERS : Contains(cv_raw_log[k], mk)
              /\ is_valid_output_claude_2(cv_raw_log[k])
        /\ \A c \in 1..Len(cv_chunks) : cv_category[c] \in {"none", "accepted", "failed"}
        /\ Cardinality(ClaudeCategory("accepted")) = Len(cv_all_results)

\* C26 witness: a run of claude-version-2.py accepted a response that had
\* none of the five sections before normalize_headers added them
C26_Witness ==
    /\ cv_script = "claude_2"
    /\ cv_pc = "done"
    /\ \E k \in 1..Len(cv_raw_log) :
          /\ Contains(cv_raw_log[k], <<"o", "k", NL, NL>>)
          /\ calculate_acceptance_score_claude_2(cv_raw_log[k]) = F_HALF
    /\ ClaudeCategory("accepted") # {}

----------------------------------------------------------------------------
\* Line coverage of the two chunkers

\* The 0-based source line indices that belong to at least one chunk of the
\* run, read off the chunks themselves: in a Numbered document every line is
\* distinct, so line i belongs to a chunk exactly when its text is one of the
\* chunk's lines
CoveredLines ==
    LET in_chunks == UNION {Range(Split(chunked.chunks[c])) : c \in 1..Len(chunked.chunks)}
    IN {i \in 0..(Len(lines) - 1) : lines[i + 1] \in in_chunks}

UncoveredLines == (0..(Len(lines) - 1)) \ CoveredLines

\* C27: for 0 <= V < W the permissive chunker leaves no source line out; the
\* strict chunker leaves out exactly the last (L - W) mod (W - V) lines when
\* L >= W and all L lines when L < W
C27_LineCoverage ==
    (policy # "none" /\ 0 <= overlap /\ overlap < size /\ lines = Numbered(Len(lines)))
        => LET L == Len(lines)
               W == size
               V == overlap
           IN /\ ~chunked.raised
              /\ policy = "permissive" => UncoveredLines = {}
              /\ policy = "strict" =>
                    UncoveredLines = IF L >= W THEN (L - ((L - W) % (W - V)))..(L - 1)
                                       ELSE 0..(L - 1)

\* C27 witness: the strict chunker with the scripts' parameters drops the 30-line
\* tail of a 300-line listing
C27_Witness ==
    /\ policy = "strict"
    /\ Len(lines) = 300 /\ size = CHUNK_SIZE /\ overlap = CHUNK_OVERLAP
    /\ lines = Numbered(300)
    /\ UncoveredLines = 270..299

----------------------------------------------------------------------------
\* The order of the results in the worker-pool variants

\* The pool's tasks finished in an order other than the order of args
FinishedOutOfOrder == \E j, k \in 1..Len(pfinished) : j < k /\ pfinished[j] > pfinished[k]

\* What each chunk's process_chunk call returned, by chunk index
PerChunkResults == [t \in 1..Len(pargs) |-> ptask[t].result]

\* kept is what a deduplication keeps of given: the first element and some of
\* the later ones, in the order of given
KeptInOrder(kept, given) ==
    IF given = <<>> THEN kept = <<>>
    ELSE /\ kept # <<>>
         /\ kept[1] = given[1]
         /\ \E at \in [1..Len(kept) -> 1..Len(given)] :
               /\ \A k \in 1..Len(kept) : kept[k] = given[at[k]]
               /\ \A j, k \in 1..Len(kept) : j < k => at[j] < at[k]

\* C28: in the worker-pool variants the list handed to fuzzy_deduplicate is the
\* per-chunk results in chunk-index order whatever the order the workers
\* finished in; the survivors are a function of the per-chunk results alone,
\* are kept in that order and written to SUMMARY.md as they are, and each chunk
\* is processed exactly once.
C28_ResultsInChunkOrder ==
    /\ pmain \in {"dedupe", "summary", "done"} =>
          /\ presults = PerChunkResults
          /\ Len(pfinished) = Len(pargs)
          /\ \A t \in 1..Len(pargs) : \E k \in 1..Len(pfinished) : pfinished[k] = t
    /\ pmain \in {"summary", "done"} =>
          /\ pfinal = fuzzy_dedupe(ValidResults(PerChunkResults))
          /\ KeptInOrder(pfinal, ValidResults(PerChunkResults))
    /\ pmain = "done" => psummary = [written |-> TRUE, content |-> pfinal]
    /\ \A j, k \in 1..Len(pfinished) : pfinished[j] = pfinished[k] => j = k

\* C28 witness: a finished run in which a later chunk's worker finished before
\* an earlier chunk's, and SUMMARY.md holds two use cases, the earlier chunk's first
C28_Witness ==
    /\ pmain = "done"
    /\ FinishedOutOfOrder
    /\ Len(psummary.content) = 2
    /\ \E a, b \in 1..Len(pargs) :
          /\ a < b
          /\ \E j, k \in 1..Len(pfinished) : j < k /\ pfinished[j] = b /\ pfinished[k] = a
          /\ psummary.content[1] = ptask[a].result.s
          /\ psummary.content[2] = ptask[b].result.s

----------------------------------------------------------------------------
\* chunk_by_subroutine of analyze_rpg_final_2.py on arbitrary listings

\* A line of a listing: one that opens a subroutine, one that closes a
\* subroutine, or any other line
SubrLines == {BEGSR, ENDSR, <<"x">>}

SubrInit ==
    /\ PromptIdle
    /\ CvIdle
    /\ NarrIdle
    /\ TitleIdle
    /\ PoolIdle
    /\ DedupeIdle
    /\ NormIdle
    /\ RunIdle
    /\ lines \in SeqsUpTo(SubrLines, MaxSubrLines)
    /\ size = CHUNK_SIZE
    /\ overlap = CHUNK_OVERLAP
    /\ policy = "none"
    /\ chunked = [raised |-> FALSE, chunks |-> <<>>]

\* chunks = chunk_by_subroutine(lines)
RunBySubroutine ==
    /\ policy = "none"
    /\ policy' = "subroutine"
    /\ chunked' = [raised |-> FALSE, chunks |-> chunk_by_subroutine(lines)]
    /\ UNCHANGED <<lines, size, overlap>>
    /\ UNCHANGED notChunk

SubrNext == RunBySubroutine

SpecSubr == SubrInit /\ [][SubrNext]_vars

\* Source line k (1-based) lies in a BEGSR..ENDSR span: a line at or before it
\* contains 'BEGSR' and no line from that one up to the one before k contains 'ENDSR'
InSpan(k) ==
    \E b \in 1..k :
        /\ Contains(lines[b], BEGSR)
        /\ \A j \in b..(k - 1) : ~Contains(lines[j], ENDSR)

\* The lines of the chunks, chunk after chunk
ChunkLinesInOrder ==
    LET F[c \in 0..Len(chunked.chunks)] ==
            IF c = 0 THEN <<>> ELSE F[c - 1] \o Split(chunked.chunks[c])
    IN F[Len(chunked.chunks)]

\* C29: every chunk chunk_by_subroutine returns is non-empty and its first line
\* contains 'BEGSR'; the lines of the chunks are source lines inside
\* BEGSR..ENDSR spans, each taken at most once, in source order
C29_SubroutineChunksWellFormed ==
    policy = "subroutine" =>
        /\ \A c \in 1..Len(chunked.chunks) :
              /\ chunked.chunks[c] # <<>>
              /\ Contains(Split(chunked.chunks[c])[1], BEGSR)
        /\ \E at \in [1..Len(ChunkLinesInOrder) -> 1..Len(lines)] :
              /\ \A k \in 1..Len(ChunkLinesInOrder) :
                    /\ ChunkLinesInOrder[k] = lines[at[k]]
                    /\ InSpan(at[k])
              /\ \A j, k \in 1..Len(ChunkLinesInOrder) : j < k => at[j] < at[k]

----------------------------------------------------------------------------
\* Termination of the sequential run of analyze_ap160_with_context.py

\* Where the run is: the loop position, the chunk index, the attempt and the model
run_position == <<rpc, ci, rattempt, rmodel>>

\* The process, not yet ended, moves on.  Every step of RunNext changes
\* run_position, and in each of these four positions RunNext has a step.
RunStep ==
    /\ rpc \in {"loop", "invoke", "primary_done", "categorise"}
    /\ rpc' \in {"loop", "invoke", "primary_done", "categorise", "done", "crashed", "aborted"}
    /\ ci' \in 0..Len(chunks)
    /\ rattempt' \in 0..RETRIES_WITH_CONTEXT
    /\ rmodel' \in {"none", "primary", "fallback"}

\* The script is one sequential process: it goes on until it has ended, and
\* every model invocation ends (it returns or it times out)
SpecRunFair == SpecRun /\ WF_run_position(RunStep)

\* The subprocess.run calls made for chunk c (1-based) on model m
InvocationsFor(c, m) == Cardinality({k \in 1..Len(calls) : calls[k].chunk = c /\ calls[k].model = m})

\* The chunks are taken in index order, each at most once, with at most N
\* invocations on the primary and then at most N on the fallback model, and
\* SUMMARY.md is not written before the loop is over
SequentialRunBounds ==
    /\ Len(category) = ci
    /\ ci <= Len(chunks)
    /\ \A j, k \in 1..Len(calls) : j < k =>
          /\ calls[j].chunk <= calls[k].chunk
          /\ (calls[j].chunk = calls[k].chunk /\ calls[j].model = "fallback")
                => calls[k].model = "fallback"
    /\ \A c \in 1..Len(chunks) :
          /\ InvocationsFor(c, "primary") <= Retries(variant)
          /\ InvocationsFor(c, "fallback") <= Retries(variant)
          /\ InvocationsFor(c, "primary") + InvocationsFor(c, "fallback") <= 2 * Retries(variant)
    /\ \A k \in 1..Len(calls) : calls[k].chunk <= Len(chunks)
    /\ summary.written => (rpc = "done" /\ summary.content = fuzzy_dedupe(all_results))

\* The run is over: every chunk has been processed and SUMMARY.md is written
SequentialRunFinished ==
    /\ rpc = "done"
    /\ ci = Len(chunks)
    /\ Len(category) = Len(chunks)
    /\ summary.written

\* C30: every sequential run of analyze_ap160_with_context.py terminates: each
\* chunk is processed exactly once in index order with at most 2*N model
\* invocations (N on the primary, then N on the fallback), and after the last
\* chunk the deduplicated summary is written, once
C30_SequentialRunTerminates ==
    /\ [](variant = "with_context" => SequentialRunBounds)
    /\ [][variant = "with_context" /\ summary.written => summary' = summary]_vars
    /\ <>(variant = "with_context" => SequentialRunFinished)

====
